---- MODULE Spec2Model ----
(***************************************************************************)
(* Model of the tool-mediation core of mdexplorer: the path sandbox, the   *)
(* sandboxed file store, the gated agent tools, the permission gate of the *)
(* chat panel and the change-proposal (diff review) pipeline.              *)
(*                                                                         *)
(* A path string is a sequence of one-character strings, so that           *)
(* String.prototype.startsWith and path.resolve can be modelled by what    *)
(* they do on characters.                                                  *)
(***************************************************************************)
EXTENDS Integers, Sequences, FiniteSets, TLC

VARIABLES
    \* ---- path sandbox (pure function, checked on drawn inputs)
    sbRoot,          \* settings.rootDirectory / rootDirectory argument
    sbPath,          \* targetPath / filePath argument
    sbOut,           \* result of the last sandbox check, or SbNone
    \* ---- host state shared by the server actions
    fs,              \* the filesystem: segments of a path -> node
    settingsJson,    \* the settings document (settings.json)
    recentFiles,     \* the recent-files list (recent_files.json)
    \* ---- file store calls
    fsLast,          \* the last file-store call and its result, or NoCall
    fsOps,           \* number of file-store calls made so far
    \* ---- agent tools (chat route) and the execution endpoint
    toolRoot,        \* rootDirectory of the request body (<<>>: not provided)
    toolOut,         \* the last tool result, or NoToolCall
    toolCalls,       \* number of tool calls made so far
    postBody,        \* body of the last POST to the execution endpoint, or NoBody
    postOut,         \* the response to it
    posts,           \* number of requests the endpoint has answered
    \* ---- model resolution (lib/models.ts and the chat route's validation)
    modelId,         \* the model identifier of the last call
    modelOut,        \* what the call answered, or NoResolution
    modelCalls,      \* number of calls made so far
    \* ---- chat panel (ChatPanel, useChat)
    messages,        \* the conversation: messages sent by the client
    chatStatus,      \* "ready", or "submitted" while an assistant turn runs
    bodyRoot,        \* rootDirectory in the body of the last message sent
    bodyContent,     \* fileContent in the body of the request under way, or NoData;
                     \* NotRecorded in the specifications that do not look at it
    pendingPermission,  \* the pending ToolPermissionRequest, or NoPermission
    approving,       \* approve handlers awaiting the execution endpoint
    execCalls,       \* requests issued to the execution endpoint, in order
    resolutions,     \* resolutions of permission requests that have finished
    toasts,          \* title of the toast shown last ("": none)
    now,             \* Date.now()
    \* ---- app store (useAppStore)
    activeFile,      \* path of the open file, or Null
    editorContent,   \* the shared editor content slot
    isDirty,
    editorVersion,
    pendingChange,   \* the staged PendingChange, or NoChange
    \* ---- diff review panel
    isAccepting,     \* the mounted panel's isAccepting state
    alerts,          \* text of the alert() shown last ("": none)
    changeOutcome,   \* what happened last to a PendingChange ("none": nothing yet)
    \* ---- server actions called by the client, and the editor's timer
    serverActions,   \* calls dispatched and not yet answered, in call order
    saveTimer,       \* the autosave debounce timer is armed
    edits,           \* number of files chosen and editor changes so far
    \* ---- settings modal (SettingsModal)
    isSettingsModalOpen,
    localSettings,   \* the modal's copy of the settings being edited
    validationStatus,   \* "null", "valid" or "invalid"
    isValidating,
    isSaving,
    validated,       \* directories whose validation has answered {valid: true}
    dirEdits,        \* number of changes of the directory field so far
    \* ---- recent-files actions
    recentLast,      \* the last recent-files call and how it ended, or NoRecentCall
    recentOps,       \* number of recent-files calls made so far
    addOrder,        \* the paths given to addRecentFile, the latest first
    \* ---- the conversation as the chat panel holds it
    lastParts,       \* the tool parts of the assistant message that finished last
    \* ---- the agent of the conversation endpoint (POST /api/chat)
    chatRequest,     \* the messages of the request the endpoint received
    chatResponse,    \* HTTP status of the endpoint's answer (0: no request yet)
    toolChoice,      \* toolChoice of the agent built ("none": no agent)
    agentSteps,      \* what each step of the agent's loop produced, in order
    \* ---- calls that the sandbox checks have rejected
    denials,         \* each rejected call with the error text it returned
    \* ---- a handler whose statements after an await are followed one by one
    pc               \* the handler and the statement it is at, or PcIdle

sbVars == <<sbRoot, sbPath, sbOut>>
hostVars == <<fs, settingsJson, recentFiles>>
fsVars == <<fsLast, fsOps>>
toolVars == <<toolRoot, toolOut, toolCalls>>
postVars == <<postBody, postOut, posts>>
modelVars == <<modelId, modelOut, modelCalls>>
chatVars == <<messages, chatStatus, bodyRoot, bodyContent>>
gateVars == <<pendingPermission, approving, execCalls, resolutions>>
storeVars == <<activeFile, editorContent, isDirty, editorVersion>>
panelVars == <<isAccepting, alerts, changeOutcome>>
queueVars == <<serverActions, saveTimer, edits>>
sessionVars == <<chatVars, gateVars, toasts, now, storeVars, pendingChange,
                 panelVars, queueVars>>
modalVars == <<isSettingsModalOpen, localSettings, validationStatus, isValidating,
               isSaving, validated, dirEdits>>
recentVars == <<recentLast, recentOps, addOrder>>

\* what the steps of each specification leave alone
agentVars == <<chatRequest, chatResponse, toolChoice, agentSteps>>
otherVars == <<modalVars, recentVars, lastParts, agentVars, denials, pc>>
SbFrame == <<hostVars, fsVars, toolVars, postVars, modelVars, sessionVars, otherVars>>
FsFrame == <<sbVars, toolVars, postVars, modelVars, sessionVars, otherVars>>
ToolFrame == <<sbVars, fsVars, postVars, modelVars, sessionVars, otherVars>>
PostFrame == <<sbVars, fsVars, toolVars, modelVars, sessionVars, otherVars>>
ModelFrame == <<sbVars, hostVars, fsVars, toolVars, postVars, sessionVars, otherVars>>
SessionFrame == <<sbVars, fsVars, toolVars, postVars, modelVars, otherVars>>
ModalFrame == <<sbVars, fsVars, toolVars, postVars, modelVars, chatVars, gateVars,
                toasts, now, storeVars, pendingChange, panelVars, saveTimer, edits,
                fs, recentFiles, recentVars, lastParts, agentVars, denials, pc>>
RecentFrame == <<sbVars, fsVars, toolVars, postVars, modelVars, sessionVars, modalVars,
                 fs, settingsJson, lastParts, agentVars, denials, pc>>

vars == <<sbRoot, sbPath, sbOut, fs, settingsJson, recentFiles, fsLast, fsOps,
          toolRoot, toolOut, toolCalls, postBody, postOut, posts,
          modelId, modelOut, modelCalls,
          messages, chatStatus, bodyRoot, bodyContent,
          pendingPermission, approving, execCalls, resolutions, toasts, now,
          activeFile, editorContent, isDirty, editorVersion,
          pendingChange, isAccepting, alerts, changeOutcome,
          serverActions,
          saveTimer, edits,
          isSettingsModalOpen, localSettings, validationStatus, isValidating,
          isSaving, validated, dirEdits, recentLast, recentOps, addOrder,
          lastParts, chatRequest, chatResponse, toolChoice, agentSteps, denials, pc>>

\* no sandbox check has been applied yet
SbNone == [by |-> "none", valid |-> FALSE]

\* ------------------------------------------------------------------------
\* Bounds
\* ------------------------------------------------------------------------
MaxPathLen == 4      \* longest target path string drawn (characters)
MaxRootLen == 3      \* longest root directory string drawn (characters)
MaxFsOps == 2        \* file-store calls in one behaviour
MaxToolCalls == 2    \* agent tool calls in one behaviour
MaxEdits == 2        \* files chosen and editor changes in one session
MaxProposals == 1    \* assistant turns in one session of SpecProposal
MaxStagings == 2     \* assistant turns in one session of SpecStaging
MAX_RECENT_FILES == 20
MaxTurns == 2        \* assistant turns in one session
MaxApproves == 2     \* clicks on Approve in one session
MaxPosts == 2        \* requests sent to the execution endpoint in one behaviour
MaxModelCalls == 2   \* calls of the model resolution in one behaviour
MaxDirEdits == 2     \* changes of the directory field of the settings modal
MaxRecentOps == 3    \* calls of the recent-files actions in one behaviour
MaxContentTurns == 1 \* assistant turns in a session on an edited file
MaxTextLen == 4      \* longest text of a message of the user (characters)
MaxDenials == 2      \* rejected calls in one behaviour

\* stepCountIs(5): the step cap of the agent's loop
StepCap == 5

\* ------------------------------------------------------------------------
\* Strings and node's path module (posix)
\* ------------------------------------------------------------------------
Char == {"/", ".", "a"}

StringsUpTo(n) == UNION {[1..k -> Char] : k \in 0..n}

\* process.cwd() of the host process, as a list of segments: "/a"
Cwd == << <<"a">> >>

\* String.prototype.startsWith
startsWith(s, prefix) ==
    /\ Len(prefix) <= Len(s)
    /\ \A i \in 1..Len(prefix) : s[i] = prefix[i]

\* the non-empty segments of a path string, split at "/"
RECURSIVE SegmentsFrom(_, _, _)
SegmentsFrom(s, i, cur) ==
    IF i > Len(s)
    THEN IF cur = <<>> THEN <<>> ELSE <<cur>>
    ELSE IF s[i] = "/"
         THEN (IF cur = <<>> THEN <<>> ELSE <<cur>>) \o SegmentsFrom(s, i + 1, <<>>)
         ELSE SegmentsFrom(s, i + 1, Append(cur, s[i]))

Segments(s) == SegmentsFrom(s, 1, <<>>)

isAbsolute(s) == Len(s) > 0 /\ s[1] = "/"

\* path.normalize on segments: "." is dropped, ".." removes the segment
\* before it (and is dropped at the filesystem root)
RECURSIVE NormalizeSegs(_, _)
NormalizeSegs(segs, acc) ==
    IF segs = <<>> THEN acc
    ELSE LET h == Head(segs)
             t == Tail(segs)
         IN  IF h = <<".">> THEN NormalizeSegs(t, acc)
             ELSE IF h = <<".", ".">>
                  THEN NormalizeSegs(t, IF acc = <<>> THEN acc
                                        ELSE SubSeq(acc, 1, Len(acc) - 1))
                  ELSE NormalizeSegs(t, Append(acc, h))

\* the segments of path.resolve(s): relative paths are taken from Cwd
resolveSegs(s) ==
    NormalizeSegs(IF isAbsolute(s) THEN Segments(s) ELSE Cwd \o Segments(s), <<>>)

\* a list of segments as an absolute path string: "/" or "/s1/s2..."
RECURSIVE JoinSegs(_)
JoinSegs(segs) ==
    IF segs = <<>> THEN <<>>
    ELSE <<"/">> \o Head(segs) \o JoinSegs(Tail(segs))

SegsToString(segs) == IF segs = <<>> THEN <<"/">> ELSE JoinSegs(segs)

\* path.resolve(s): absolute, normalized, no trailing slash
resolve(s) == SegsToString(resolveSegs(s))

\* segs is rootSegs or a path-segment-wise descendant of it
IsSegPrefix(rootSegs, segs) ==
    /\ Len(rootSegs) <= Len(segs)
    /\ \A i \in 1..Len(rootSegs) : segs[i] = rootSegs[i]

\* the sandbox contract: resolve(p) is resolve(root) or a descendant of it
InsideRoot(p, root) == IsSegPrefix(resolveSegs(root), resolveSegs(p))

\* ------------------------------------------------------------------------
\* The sandbox checks
\* ------------------------------------------------------------------------
\* file-management-actions.ts validatePathSecurity, with settings.rootDirectory = root
validatePathSecurity(targetPath, root) ==
    LET resolvedPath == resolve(targetPath)
        rootPath     == resolve(root)
    IN  [valid |-> startsWith(resolvedPath, rootPath),
         resolvedPath |-> resolvedPath,
         rootPath |-> rootPath]

\* execute-tool/route.ts and chat route: validatePath
validatePath(filePath, rootDirectory) ==
    LET resolvedPath == resolve(filePath)
        resolvedRoot == resolve(rootDirectory)
    IN  startsWith(resolvedPath, resolvedRoot)

\* ------------------------------------------------------------------------
\* More of node's path module
\* ------------------------------------------------------------------------
\* the string a + "/" + b that path.join normalizes (empty parts are skipped)
JoinRaw(a, b) ==
    IF a = <<>> THEN b ELSE IF b = <<>> THEN a ELSE a \o <<"/">> \o b

\* normalization of a relative path: ".." is kept where nothing precedes it
RECURSIVE NormalizeRel(_, _)
NormalizeRel(segs, acc) ==
    IF segs = <<>> THEN acc
    ELSE LET h == Head(segs)
             t == Tail(segs)
         IN  IF h = <<".">> THEN NormalizeRel(t, acc)
             ELSE IF h = <<".", ".">> /\ acc # <<>> /\ acc[Len(acc)] # <<".", ".">>
                  THEN NormalizeRel(t, SubSeq(acc, 1, Len(acc) - 1))
                  ELSE NormalizeRel(t, Append(acc, h))

\* path.join(a, b): the normalized concatenation; a relative result stays
\* relative, the empty result is "."
join(a, b) ==
    LET raw == JoinRaw(a, b)
    IN  IF raw = <<>> THEN <<".">>
        ELSE IF isAbsolute(raw)
             THEN SegsToString(NormalizeSegs(Segments(raw), <<>>))
             ELSE LET rel == NormalizeRel(Segments(raw), <<>>)
                  IN  IF rel = <<>> THEN <<".">> ELSE Tail(JoinSegs(rel))

parentSegs(segs) == SubSeq(segs, 1, Len(segs) - 1)

\* path.dirname and path.basename of a resolved path
dirname(resolved) ==
    LET segs == Segments(resolved)
    IN  IF segs = <<>> THEN <<"/">> ELSE SegsToString(parentSegs(segs))

basename(resolved) ==
    LET segs == Segments(resolved)
    IN  IF segs = <<>> THEN <<>> ELSE segs[Len(segs)]

\* position of the last "." of a name, 0 when there is none
LastDot(name) ==
    LET dots == {i \in 1..Len(name) : name[i] = "."}
    IN  IF dots = {} THEN 0 ELSE CHOOSE i \in dots : \A j \in dots : j <= i

\* path.extname: from the last "." on, "" for no dot or a leading dot only
extname(name) ==
    IF LastDot(name) <= 1 THEN <<>> ELSE SubSeq(name, LastDot(name), Len(name))

\* String.prototype.toLowerCase, on the characters the model uses
LowerChar(c) == IF c = "D" THEN "d" ELSE IF c = "M" THEN "m" ELSE c

toLowerCase(s) == [i \in 1..Len(s) |-> LowerChar(s[i])]

endsWith(s, suffix) ==
    /\ Len(suffix) <= Len(s)
    /\ \A i \in 1..Len(suffix) : s[Len(s) - Len(suffix) + i] = suffix[i]

\* ------------------------------------------------------------------------
\* The filesystem (fs/promises): a function from the segments of each
\* existing absolute path to its node
\* ------------------------------------------------------------------------
DirNode == [type |-> "dir", content |-> "-"]
FileOf(c) == [type |-> "file", content |-> c]

exists(f, s) == resolveSegs(s) \in DOMAIN f
isDirectory(f, s) == exists(f, s) /\ f[resolveSegs(s)].type = "dir"
isFile(f, s) == exists(f, s) /\ f[resolveSegs(s)].type = "file"

Prefixes(segs) == {SubSeq(segs, 1, k) : k \in 0..Len(segs)}
SubtreeOf(f, p) == {q \in DOMAIN f : IsSegPrefix(p, q)}
ChildrenOf(f, p) == {q \in DOMAIN f : Len(q) = Len(p) + 1 /\ IsSegPrefix(p, q)}

\* fs.mkdir(s, {recursive: true}): fails when a component is a file
mkdirOk(f, s) ==
    \A q \in Prefixes(resolveSegs(s)) : q \in DOMAIN f => f[q].type = "dir"

mkdirFs(f, s) ==
    [q \in DOMAIN f \cup Prefixes(resolveSegs(s)) |->
        IF q \in DOMAIN f THEN f[q] ELSE DirNode]

\* fs.writeFile(s, c): the parent must be a directory, s must not be one
writeOk(f, s) ==
    LET p == resolveSegs(s)
    IN  /\ p # <<>>
        /\ parentSegs(p) \in DOMAIN f
        /\ f[parentSegs(p)].type = "dir"
        /\ (p \in DOMAIN f => f[p].type = "file")

writeFs(f, s, c) ==
    LET p == resolveSegs(s)
    IN  [q \in DOMAIN f \cup {p} |-> IF q = p THEN FileOf(c) ELSE f[q]]

\* fs.readFile(s)
readOk(f, s) == isFile(f, s)
readFs(f, s) == f[resolveSegs(s)].content

\* fs.readdir(s)
readdirOk(f, s) == isDirectory(f, s)

\* fs.rename(a, b): a must exist, b's parent must be a directory, a
\* directory cannot go below itself, an existing b is replaced only by a
\* node of its own type (a directory only when b is empty)
renameOk(f, a, b) ==
    LET pa == resolveSegs(a)
        pb == resolveSegs(b)
    IN  /\ pa \in DOMAIN f
        /\ pa # <<>>
        /\ pb # <<>>
        /\ parentSegs(pb) \in DOMAIN f
        /\ f[parentSegs(pb)].type = "dir"
        /\ (pa # pb => ~IsSegPrefix(pa, pb))
        /\ (pb \in DOMAIN f /\ pb # pa =>
               /\ f[pb].type = f[pa].type
               /\ ChildrenOf(f, pb) = {}
               /\ ~IsSegPrefix(pb, pa))

renameFs(f, a, b) ==
    LET pa == resolveSegs(a)
        pb == resolveSegs(b)
        moved == SubtreeOf(f, pa)
        kept  == DOMAIN f \ (moved \cup SubtreeOf(f, pb))
        to(q) == pb \o SubSeq(q, Len(pa) + 1, Len(q))
        from(q) == pa \o SubSeq(q, Len(pb) + 1, Len(q))
    IN  [q \in kept \cup {to(m) : m \in moved} |->
            IF q \in kept THEN f[q] ELSE f[from(q)]]

\* fs.rm(s, {recursive: true}), fs.unlink(s), trash(s): the node and
\* everything below it leave the tree
removeFs(f, s) ==
    [q \in DOMAIN f \ SubtreeOf(f, resolveSegs(s)) |-> f[q]]

unlinkOk(f, s) == isFile(f, s)
rmOk(f, s) == exists(f, s) /\ resolveSegs(s) # <<>>

\* ------------------------------------------------------------------------
\* The file store (file-actions.ts, file-management-actions.ts)
\* ------------------------------------------------------------------------
\* the result of one file-store call: what the caller gets (success, error,
\* thrown, content, nodes) and the fs calls the operation made (io)
FsRes(op, targets, success, error, thrown, io, content, nodes) ==
    [op |-> op, targets |-> targets, success |-> success, error |-> error,
     thrown |-> thrown, io |-> io, content |-> content, nodes |-> nodes]

NoCall == FsRes("none", {}, FALSE, "", FALSE, {}, "", <<>>)

Denied(op, targets) ==
    FsRes(op, targets, FALSE, "AccessDenied", FALSE, {}, "", <<>>)

Failed(op, targets, error, io) ==
    FsRes(op, targets, FALSE, error, FALSE, io, "", <<>>)

Thrown(op, targets, error, io) ==
    FsRes(op, targets, FALSE, error, TRUE, io, "", <<>>)

Done(op, targets, io) ==
    FsRes(op, targets, TRUE, "", FALSE, io, "", <<>>)

\* the error an fs call on s reports
FsError(f, s) == IF exists(f, s) THEN "IOError" ELSE "NotFound"

\* a shouldExclude that filters folders only
shouldExclude_FoldersOnly(name, isDir, settings) ==
    IF isDir
    THEN \E folder \in settings.excludedFolders :
            name = folder \/ toLowerCase(name) = toLowerCase(folder)
    ELSE FALSE

\* shouldExclude(name, isDirectory, settings)
shouldExclude(name, isDir, settings) ==
    IF isDir
    THEN \E folder \in settings.excludedFolders :
            name = folder \/ toLowerCase(name) = toLowerCase(folder)
    ELSE \E excludedExt \in settings.excludedExtensions :
            toLowerCase(extname(name)) = toLowerCase(excludedExt)

\* String.prototype.localeCompare(a, b) < 0: letters compare without case
\* first, and a lower-case letter precedes its upper-case form on a tie
CharOrder ==
    <<" ", ".", "2", "3", "a", "b", "c", "d", "D", "e", "g", "i", "l", "m", "M",
      "n", "o", "p", "s", "t", "w", "x", "y">>

CharRank(c) == CHOOSE i \in 1..Len(CharOrder) : CharOrder[i] = c

RECURSIVE LexLess(_, _)
LexLess(a, b) ==
    IF b = <<>> THEN FALSE
    ELSE IF a = <<>> THEN TRUE
    ELSE IF Head(a) = Head(b) THEN LexLess(Tail(a), Tail(b))
    ELSE CharRank(Head(a)) < CharRank(Head(b))

localeLess(a, b) ==
    IF toLowerCase(a) # toLowerCase(b)
    THEN LexLess(toLowerCase(a), toLowerCase(b))
    ELSE LexLess(a, b)

\* the comparator of readDirectory's sort: directories first, then by name
NodeBefore(a, b) ==
    IF a.type = b.type THEN localeLess(a.name, b.name) ELSE a.type = "directory"

RECURSIVE SortNodes(_)
SortNodes(nodes) ==
    IF nodes = {} THEN <<>>
    ELSE LET first == CHOOSE n \in nodes : \A m \in nodes \ {n} : ~NodeBefore(m, n)
         IN  <<first>> \o SortNodes(nodes \ {first})

\* the FileNode[] readDirectory builds for an existing directory targetPath
RECURSIVE readDirectoryNodes(_, _, _)
readDirectoryNodes(f, targetPath, settings) ==
    LET dir == resolveSegs(targetPath)
        kept == {q \in ChildrenOf(f, dir) :
                    ~shouldExclude(q[Len(q)], f[q].type = "dir", settings)}
        node(q) ==
            LET fullPath == join(targetPath, q[Len(q)])
            IN  IF f[q].type = "dir"
                THEN [name |-> q[Len(q)], path |-> fullPath, type |-> "directory",
                      extension |-> <<>>,
                      children |-> readDirectoryNodes(f, fullPath, settings)]
                ELSE [name |-> q[Len(q)], path |-> fullPath, type |-> "file",
                      extension |-> toLowerCase(extname(q[Len(q)])),
                      children |-> <<>>]
    IN  SortNodes({node(q) : q \in kept})

\* a readDirectory that answers [] for a missing directory without creating it
readDirectory_NoMkdir(f, settings, dirPath, fault) ==
    LET targetPath == IF dirPath = <<>> THEN settings.rootDirectory ELSE dirPath
        t == {targetPath}
    IN  IF ~exists(f, targetPath)
        THEN IF mkdirOk(f, targetPath) /\ ~fault
             THEN [fs |-> f, res |-> Done("readDirectory", t, {"access"})]
             ELSE [fs |-> f,
                   res |-> Thrown("readDirectory", t, "IOError", {"access", "mkdir"})]
        ELSE IF ~readdirOk(f, targetPath) \/ fault
             THEN [fs |-> f,
                   res |-> Thrown("readDirectory", t, "IOError", {"access", "readdir"})]
             ELSE [fs |-> f,
                   res |-> FsRes("readDirectory", t, TRUE, "", FALSE,
                                 {"access", "readdir"}, "",
                                 readDirectoryNodes(f, targetPath, settings))]

\* readDirectory(dirPath): no sandbox check; a missing directory is created
readDirectory(f, settings, dirPath, fault) ==
    LET targetPath == IF dirPath = <<>> THEN settings.rootDirectory ELSE dirPath
        t == {targetPath}
    IN  IF ~exists(f, targetPath)
        THEN IF mkdirOk(f, targetPath) /\ ~fault
             THEN [fs |-> mkdirFs(f, targetPath),
                   res |-> Done("readDirectory", t, {"access", "mkdir"})]
             ELSE [fs |-> f,
                   res |-> Thrown("readDirectory", t, "IOError", {"access", "mkdir"})]
        ELSE IF ~readdirOk(f, targetPath) \/ fault
             THEN [fs |-> f,
                   res |-> Thrown("readDirectory", t, "IOError", {"access", "readdir"})]
             ELSE [fs |-> f,
                   res |-> FsRes("readDirectory", t, TRUE, "", FALSE,
                                 {"access", "readdir"}, "",
                                 readDirectoryNodes(f, targetPath, settings))]

\* readFile(filePath): throws on a sandbox violation and on a failed read
readFile(f, settings, filePath, fault) ==
    LET resolvedPath == resolve(filePath)
        resolvedRoot == resolve(settings.rootDirectory)
        t == {filePath}
    IN  IF ~startsWith(resolvedPath, resolvedRoot)
        THEN [fs |-> f, res |-> Thrown("readFile", t, "AccessDenied", {})]
        ELSE IF ~readOk(f, resolvedPath) \/ fault
             THEN [fs |-> f,
                   res |-> Thrown("readFile", t, FsError(f, resolvedPath), {"readFile"})]
             ELSE [fs |-> f,
                   res |-> FsRes("readFile", t, TRUE, "", FALSE, {"readFile"},
                                 readFs(f, resolvedPath), <<>>)]

\* writeFile(filePath, content): every exception becomes {success: false}
writeFile(f, settings, filePath, content, fault) ==
    LET resolvedPath == resolve(filePath)
        resolvedRoot == resolve(settings.rootDirectory)
        dir == dirname(resolvedPath)
        t == {filePath}
    IN  IF ~startsWith(resolvedPath, resolvedRoot)
        THEN [fs |-> f, res |-> Denied("writeFile", t)]
        ELSE IF ~mkdirOk(f, dir)
             THEN [fs |-> f, res |-> Failed("writeFile", t, "IOError", {"mkdir"})]
             ELSE IF ~writeOk(mkdirFs(f, dir), resolvedPath) \/ fault
                  THEN [fs |-> mkdirFs(f, dir),
                        res |-> Failed("writeFile", t, "IOError", {"mkdir", "writeFile"})]
                  ELSE [fs |-> writeFs(mkdirFs(f, dir), resolvedPath, content),
                        res |-> Done("writeFile", t, {"mkdir", "writeFile"})]

\* a createFile that does not look whether the file exists
createFile_NoExistsCheck(f, settings, parentPath, fileName, content, fault) ==
    LET targetDir == IF parentPath = <<>> THEN settings.rootDirectory ELSE parentPath
        filePath == join(targetDir, fileName)
        v == validatePathSecurity(filePath, settings.rootDirectory)
        dir == dirname(v.resolvedPath)
        t == {filePath}
    IN  IF ~v.valid THEN [fs |-> f, res |-> Denied("createFile", t)]
        ELSE IF ~mkdirOk(f, dir)
        THEN [fs |-> f, res |-> Failed("createFile", t, "IOError", {"access", "mkdir"})]
        ELSE IF ~writeOk(mkdirFs(f, dir), v.resolvedPath) \/ fault
        THEN [fs |-> mkdirFs(f, dir),
              res |-> Failed("createFile", t, "IOError", {"access", "mkdir", "writeFile"})]
        ELSE [fs |-> writeFs(mkdirFs(f, dir), v.resolvedPath, content),
              res |-> Done("createFile", t, {"access", "mkdir", "writeFile"})]

\* createFile(parentPath, fileName, content)
createFile(f, settings, parentPath, fileName, content, fault) ==
    LET targetDir == IF parentPath = <<>> THEN settings.rootDirectory ELSE parentPath
        filePath == join(targetDir, fileName)
        v == validatePathSecurity(filePath, settings.rootDirectory)
        dir == dirname(v.resolvedPath)
        t == {filePath}
    IN  IF ~v.valid THEN [fs |-> f, res |-> Denied("createFile", t)]
        ELSE IF exists(f, v.resolvedPath)
        THEN [fs |-> f, res |-> Failed("createFile", t, "AlreadyExists", {"access"})]
        ELSE IF ~mkdirOk(f, dir)
        THEN [fs |-> f, res |-> Failed("createFile", t, "IOError", {"access", "mkdir"})]
        ELSE IF ~writeOk(mkdirFs(f, dir), v.resolvedPath) \/ fault
        THEN [fs |-> mkdirFs(f, dir),
              res |-> Failed("createFile", t, "IOError", {"access", "mkdir", "writeFile"})]
        ELSE [fs |-> writeFs(mkdirFs(f, dir), v.resolvedPath, content),
              res |-> Done("createFile", t, {"access", "mkdir", "writeFile"})]

\* createFolder(parentPath, folderName)
createFolder(f, settings, parentPath, folderName, fault) ==
    LET targetDir == IF parentPath = <<>> THEN settings.rootDirectory ELSE parentPath
        folderPath == join(targetDir, folderName)
        v == validatePathSecurity(folderPath, settings.rootDirectory)
        t == {folderPath}
    IN  IF ~v.valid THEN [fs |-> f, res |-> Denied("createFolder", t)]
        ELSE IF exists(f, v.resolvedPath)
        THEN [fs |-> f, res |-> Failed("createFolder", t, "AlreadyExists", {"access"})]
        ELSE IF ~mkdirOk(f, v.resolvedPath) \/ fault
        THEN [fs |-> f, res |-> Failed("createFolder", t, "IOError", {"access", "mkdir"})]
        ELSE [fs |-> mkdirFs(f, v.resolvedPath),
              res |-> Done("createFolder", t, {"access", "mkdir"})]

\* renameItem(oldPath, newName)
renameItem(f, settings, oldPath, newName, fault) ==
    LET old == validatePathSecurity(oldPath, settings.rootDirectory)
        parentDir == dirname(old.resolvedPath)
        newPath == join(parentDir, newName)
        new == validatePathSecurity(newPath, settings.rootDirectory)
        t == {oldPath, newPath}
    IN  IF ~old.valid THEN [fs |-> f, res |-> Denied("renameItem", t)]
        ELSE IF ~new.valid THEN [fs |-> f, res |-> Denied("renameItem", t)]
        ELSE IF exists(f, new.resolvedPath)
        THEN [fs |-> f, res |-> Failed("renameItem", t, "AlreadyExists", {"access"})]
        ELSE IF ~renameOk(f, old.resolvedPath, new.resolvedPath) \/ fault
        THEN [fs |-> f,
              res |-> Failed("renameItem", t, FsError(f, old.resolvedPath),
                             {"access", "rename"})]
        ELSE [fs |-> renameFs(f, old.resolvedPath, new.resolvedPath),
              res |-> Done("renameItem", t, {"access", "rename"})]

\* a moveItem whose into-itself test leaves out the path separator
moveItem_NoSeparator(f, settings, sourcePath, targetFolderPath, fault) ==
    LET src == validatePathSecurity(sourcePath, settings.rootDirectory)
        itemName == basename(src.resolvedPath)
        destinationPath == join(targetFolderPath, itemName)
        dest == validatePathSecurity(destinationPath, settings.rootDirectory)
        dir == dirname(dest.resolvedPath)
        t == {sourcePath, destinationPath}
    IN  IF ~src.valid THEN [fs |-> f, res |-> Denied("moveItem", t)]
        ELSE IF ~dest.valid THEN [fs |-> f, res |-> Denied("moveItem", t)]
        ELSE IF startsWith(dest.resolvedPath, src.resolvedPath)
        THEN [fs |-> f, res |-> Failed("moveItem", t, "MoveIntoItself", {})]
        ELSE IF exists(f, dest.resolvedPath)
        THEN [fs |-> f, res |-> Failed("moveItem", t, "AlreadyExists", {"access"})]
        ELSE IF ~mkdirOk(f, dir)
        THEN [fs |-> f, res |-> Failed("moveItem", t, "IOError", {"access", "mkdir"})]
        ELSE IF ~renameOk(mkdirFs(f, dir), src.resolvedPath, dest.resolvedPath) \/ fault
        THEN [fs |-> mkdirFs(f, dir),
              res |-> Failed("moveItem", t, FsError(f, src.resolvedPath),
                             {"access", "mkdir", "rename"})]
        ELSE [fs |-> renameFs(mkdirFs(f, dir), src.resolvedPath, dest.resolvedPath),
              res |-> Done("moveItem", t, {"access", "mkdir", "rename"})]

\* moveItem(sourcePath, targetFolderPath)
moveItem(f, settings, sourcePath, targetFolderPath, fault) ==
    LET src == validatePathSecurity(sourcePath, settings.rootDirectory)
        itemName == basename(src.resolvedPath)
        destinationPath == join(targetFolderPath, itemName)
        dest == validatePathSecurity(destinationPath, settings.rootDirectory)
        dir == dirname(dest.resolvedPath)
        t == {sourcePath, destinationPath}
    IN  IF ~src.valid THEN [fs |-> f, res |-> Denied("moveItem", t)]
        ELSE IF ~dest.valid THEN [fs |-> f, res |-> Denied("moveItem", t)]
        ELSE IF startsWith(dest.resolvedPath, src.resolvedPath \o <<"/">>)
        THEN [fs |-> f, res |-> Failed("moveItem", t, "MoveIntoItself", {})]
        ELSE IF exists(f, dest.resolvedPath)
        THEN [fs |-> f, res |-> Failed("moveItem", t, "AlreadyExists", {"access"})]
        ELSE IF ~mkdirOk(f, dir)
        THEN [fs |-> f, res |-> Failed("moveItem", t, "IOError", {"access", "mkdir"})]
        ELSE IF ~renameOk(mkdirFs(f, dir), src.resolvedPath, dest.resolvedPath) \/ fault
        THEN [fs |-> mkdirFs(f, dir),
              res |-> Failed("moveItem", t, FsError(f, src.resolvedPath),
                             {"access", "mkdir", "rename"})]
        ELSE [fs |-> renameFs(mkdirFs(f, dir), src.resolvedPath, dest.resolvedPath),
              res |-> Done("moveItem", t, {"access", "mkdir", "rename"})]

\* removeRecentFile(filePath): the list without the entries of that path
removeRecentFile(recent, filePath) ==
    SelectSeq(recent, LAMBDA e : e.path # filePath)

\* deleteItem(itemPath, useTrash); trashWorks: the trash package succeeds.
\* Returns the new tree, the result and the new recent-files list.
deleteItem(f, settings, recent, itemPath, useTrash, trashWorks, fault) ==
    LET v == validatePathSecurity(itemPath, settings.rootDirectory)
        t == {itemPath}
        keep(res) == [fs |-> f, res |-> res, recent |-> recent]
        gone(io) == [fs |-> removeFs(f, v.resolvedPath),
                     res |-> Done("deleteItem", t, io),
                     recent |-> removeRecentFile(recent, v.resolvedPath)]
        permanent(io) ==
            IF isDirectory(f, v.resolvedPath)
            THEN IF rmOk(f, v.resolvedPath) /\ ~fault
                 THEN gone(io \cup {"rm"})
                 ELSE keep(Failed("deleteItem", t, "IOError", io \cup {"rm"}))
            ELSE IF unlinkOk(f, v.resolvedPath) /\ ~fault
                 THEN gone(io \cup {"unlink"})
                 ELSE keep(Failed("deleteItem", t, "IOError", io \cup {"unlink"}))
    IN  IF ~v.valid THEN keep(Denied("deleteItem", t))
        ELSE IF ~exists(f, v.resolvedPath)
        THEN keep(Failed("deleteItem", t, "NotFound", {"stat"}))
        ELSE IF useTrash
        THEN IF trashWorks /\ resolveSegs(itemPath) # <<>>
             THEN gone({"stat", "trash"})
             ELSE permanent({"stat", "trash"})
        ELSE permanent({"stat"})

\* path.basename(p, ext): the last segment without a trailing ext
basenameExt(resolved, ext) ==
    LET name == basename(resolved)
    IN  IF ext # <<>> /\ name # ext /\ endsWith(name, ext)
        THEN SubSeq(name, 1, Len(name) - Len(ext))
        ELSE name

Digits == <<"1", "2", "3", "4", "5", "6", "7", "8", "9">>

\* duplicateFile's search for a free name: "<base> copy<ext>", then
\* "<base> copy <counter><ext>" with counter 2, 3, ...
RECURSIVE FreeCopyPath(_, _, _, _, _, _)
FreeCopyPath(f, dir, baseName, ext, newPath, counter) ==
    IF ~exists(f, newPath) \/ counter >= Len(Digits) THEN newPath
    ELSE FreeCopyPath(f, dir, baseName, ext,
             join(dir, baseName \o <<" ", "c", "o", "p", "y", " ">>
                       \o <<Digits[counter + 1]>> \o ext),
             counter + 1)

\* duplicateFile(filePath)
duplicateFile(f, settings, filePath, fault) ==
    LET v == validatePathSecurity(filePath, settings.rootDirectory)
        ext == extname(basename(v.resolvedPath))
        baseName == basenameExt(v.resolvedPath, ext)
        dir == dirname(v.resolvedPath)
        newPath == FreeCopyPath(f, dir, baseName, ext,
                       join(dir, baseName \o <<" ", "c", "o", "p", "y">> \o ext), 1)
        t == {filePath}
    IN  IF ~v.valid THEN [fs |-> f, res |-> Denied("duplicateFile", t)]
        ELSE IF ~exists(f, v.resolvedPath)
        THEN [fs |-> f, res |-> Failed("duplicateFile", t, "NotFound", {"stat"})]
        ELSE IF ~isFile(f, v.resolvedPath)
        THEN [fs |-> f, res |-> Failed("duplicateFile", t, "NotAFile", {"stat"})]
        ELSE IF ~writeOk(f, newPath) \/ fault
        THEN [fs |-> f,
              res |-> Failed("duplicateFile", t, "IOError",
                             {"stat", "access", "readFile", "writeFile"})]
        ELSE [fs |-> writeFs(f, newPath, readFs(f, v.resolvedPath)),
              res |-> Done("duplicateFile", t,
                           {"stat", "access", "readFile", "writeFile"})]

\* ------------------------------------------------------------------------
\* The host the model runs on: a root directory /w with a file, a folder
\* and a file in it, and next to it a directory /wx the sandbox excludes
\* ------------------------------------------------------------------------
sW  == <<"w">>
sWX == <<"w", "x">>
sD  == <<"d">>
sA  == <<"a", ".", "m", "d">>
sB  == <<"b", ".", "m", "d">>
sS  == <<"s", ".", "m", "d">>
sN  == <<"n", ".", "m", "d">>

pRoot   == SegsToString(<<sW>>)            \* /w
pA      == SegsToString(<<sW, sA>>)        \* /w/a.md
pD      == SegsToString(<<sW, sD>>)        \* /w/d
pB      == SegsToString(<<sW, sD, sB>>)    \* /w/d/b.md
pN      == SegsToString(<<sW, sN>>)        \* /w/n.md   (does not exist)
pWX     == SegsToString(<<sWX>>)           \* /wx       (outside the root)
pS      == SegsToString(<<sWX, sS>>)       \* /wx/s.md  (outside the root)
pUp     == pRoot \o <<"/", ".", ".", "/", "o">>   \* /w/../o (outside the root)

HostTree ==
    LET dirs  == {<<>>, <<sW>>, <<sW, sD>>, <<sWX>>}
        files == {<<sW, sA>>, <<sW, sD, sB>>, <<sWX, sS>>}
        text(q) == IF q = <<sW, sA>> THEN "c1"
                   ELSE IF q = <<sW, sD, sB>> THEN "c2" ELSE "c3"
    IN  [q \in dirs \cup files |-> IF q \in dirs THEN DirNode ELSE FileOf(text(q))]

HostSettings ==
    [rootDirectory |-> pRoot,
     excludedExtensions |-> {<<".", "l", "o", "g">>},
     excludedFolders |-> {<<".", "g", "i", "t">>}]

HostInit ==
    /\ fs = HostTree
    /\ settingsJson = HostSettings
    /\ recentFiles = <<[path |-> pA, action |-> "open"]>>

\* ------------------------------------------------------------------------
\* SpecFileStore: any sequence of file-store calls on the host
\* ------------------------------------------------------------------------
FsArgPaths == {<<>>, pRoot, pA, pD, pN, pS, pUp}
FsArgNames == {sA, sN, <<".", ".", "/", "o">>}
FsArgParents == {<<>>, pD, pWX}
FsArgSources == {pA, pD, pS}
FsArgFolders == {pRoot, pD, pD \o <<"/", "e">>, pWX}
FsContents == {"c4"}

FsIdle == fsLast = NoCall /\ fsOps = 0

\* one call: the new tree and the result become the state
FsCall(r) ==
    /\ fsOps < MaxFsOps
    /\ fsOps' = fsOps + 1
    /\ fs' = r.fs
    /\ fsLast' = r.res
    /\ UNCHANGED FsFrame

FsReadDirectory ==
    \E p \in FsArgPaths, fault \in BOOLEAN :
        /\ FsCall(readDirectory(fs, settingsJson, p, fault))
        /\ UNCHANGED <<settingsJson, recentFiles>>

FsReadFile ==
    \E p \in FsArgPaths, fault \in BOOLEAN :
        /\ FsCall(readFile(fs, settingsJson, p, fault))
        /\ UNCHANGED <<settingsJson, recentFiles>>

FsWriteFile ==
    \E p \in FsArgPaths, c \in FsContents, fault \in BOOLEAN :
        /\ FsCall(writeFile(fs, settingsJson, p, c, fault))
        /\ UNCHANGED <<settingsJson, recentFiles>>

FsCreateFile ==
    \E p \in FsArgParents, n \in FsArgNames, c \in FsContents, fault \in BOOLEAN :
        /\ FsCall(createFile(fs, settingsJson, p, n, c, fault))
        /\ UNCHANGED <<settingsJson, recentFiles>>

FsCreateFolder ==
    \E p \in FsArgParents, n \in FsArgNames, fault \in BOOLEAN :
        /\ FsCall(createFolder(fs, settingsJson, p, n, fault))
        /\ UNCHANGED <<settingsJson, recentFiles>>

FsRenameItem ==
    \E p \in FsArgSources, n \in FsArgNames, fault \in BOOLEAN :
        /\ FsCall(renameItem(fs, settingsJson, p, n, fault))
        /\ UNCHANGED <<settingsJson, recentFiles>>

FsMoveItem ==
    \E p \in FsArgSources, d \in FsArgFolders, fault \in BOOLEAN :
        /\ FsCall(moveItem(fs, settingsJson, p, d, fault))
        /\ UNCHANGED <<settingsJson, recentFiles>>

FsDeleteItem ==
    \E p \in FsArgSources \cup {pN}, useTrash \in BOOLEAN, trashWorks \in BOOLEAN,
       fault \in BOOLEAN :
        LET r == deleteItem(fs, settingsJson, recentFiles, p, useTrash, trashWorks, fault)
        IN  /\ FsCall(r)
            /\ recentFiles' = r.recent
            /\ UNCHANGED settingsJson

FsDuplicateFile ==
    \E p \in FsArgSources \cup {pN}, fault \in BOOLEAN :
        /\ FsCall(duplicateFile(fs, settingsJson, p, fault))
        /\ UNCHANGED <<settingsJson, recentFiles>>

FsNext ==
    \/ FsReadDirectory
    \/ FsReadFile
    \/ FsWriteFile
    \/ FsCreateFile
    \/ FsCreateFolder
    \/ FsRenameItem
    \/ FsMoveItem
    \/ FsDeleteItem
    \/ FsDuplicateFile

\* a path argument of the last call resolves outside the resolved root
TargetsOutside ==
    \E p \in fsLast.targets : ~InsideRoot(p, settingsJson.rootDirectory)

\* C2: a file-store operation with a path argument outside the root ends
\* access-denied and makes no fs call (no read, write, rename, delete, mkdir).
C2_OutsideIsDeniedWithoutIo ==
    (fsLast # NoCall /\ TargetsOutside) =>
        /\ fsLast.error = "AccessDenied"
        /\ ~fsLast.success
        /\ fsLast.io = {}

\* C22: a successful deleteItem leaves the item (a directory with all it
\* holds) out of the tree and its path out of the recent-files list; for a
\* path outside the root or a path that does not exist nothing is deleted
\* and the recent-files list is unchanged.
C22_DeleteOnlyInsideRoot ==
    [][FsDeleteItem =>
          LET itemPath == CHOOSE p \in fsLast'.targets : TRUE
          IN  /\ fsLast'.success =>
                    /\ SubtreeOf(fs', resolveSegs(itemPath)) = {}
                    /\ \A i \in 1..Len(recentFiles') :
                          recentFiles'[i].path # resolve(itemPath)
              /\ (~InsideRoot(itemPath, settingsJson.rootDirectory)
                     \/ ~exists(fs, itemPath)) =>
                    /\ ~fsLast'.success
                    /\ fs' = fs
                    /\ recentFiles' = recentFiles]_vars

\* C23: no file-store operation raises an exception to its caller: every
\* failure, access denied and a missing file or directory included, comes
\* back as a returned {success: false, error} result.
C23_FailuresAreReturned ==
    fsLast # NoCall =>
        /\ ~fsLast.thrown
        /\ ~fsLast.success => fsLast.error # ""

\* ------------------------------------------------------------------------
\* The agent's tools (chat route): first, non-executing invocation
\* ------------------------------------------------------------------------
\* an optional parameter the agent left out
Undefined == <<"#undefined">>
NoData == "#nodata"
Star == <<"*">>
DotMd == <<".", "m", "d">>

\* a permission request as the gated tools return it (absent fields are
\* Undefined)
PermissionRequest(toolName, action, reason, filePath, pattern, query, filePattern) ==
    [toolName |-> toolName, action |-> action, reason |-> reason,
     filePath |-> filePath, pattern |-> pattern, query |-> query,
     filePattern |-> filePattern]

NoPermissionRequest ==
    PermissionRequest("none", "none", "none", Undefined, Undefined, Undefined, Undefined)

\* the payload of a proposal result
Proposal(targetPath, proposedContent, summary) ==
    [path |-> targetPath, proposedContent |-> proposedContent, summary |-> summary]

NoProposal == Proposal(Undefined, "#nodata", "#nodata")

\* a tool result with the fs calls the tool made and the tree it leaves
ToolRes(f, tool, success, requiresPermission, error, request, data, io) ==
    [fs |-> f,
     res |-> [tool |-> tool, success |-> success,
              requiresPermission |-> requiresPermission, error |-> error,
              permissionRequest |-> request, data |-> data, io |-> io,
              proposal |-> NoProposal]]

NoToolCall ==
    ToolRes(<<>>, "none", FALSE, FALSE, "", NoPermissionRequest, NoData, {}).res

\* x || "*" : the default for an undefined or empty string
OrStar(x) == IF x = Undefined \/ x = <<>> THEN Star ELSE x

\* String.prototype.trim over the characters in use
IsSpace(c) == c = " "
RECURSIVE trimStart(_)
trimStart(s) == IF s # <<>> /\ IsSpace(Head(s)) THEN trimStart(Tail(s)) ELSE s
RECURSIVE trimEnd(_)
trimEnd(s) ==
    IF s # <<>> /\ IsSpace(s[Len(s)]) THEN trimEnd(SubSeq(s, 1, Len(s) - 1)) ELSE s
trim(s) == trimEnd(trimStart(s))

\* createProposeDocumentChangeTool(rootDirectory).execute({path, newContent, summary})
createProposeDocumentChangeTool(f, rootDirectory, targetPath, newContent, summary) ==
    IF targetPath = <<>> \/ trim(targetPath) = <<>>
    THEN ToolRes(f, "proposeDocumentChange", FALSE, FALSE, "NoPath",
                 NoPermissionRequest, NoData, {})
    ELSE IF rootDirectory # <<>> /\ ~validatePath(targetPath, rootDirectory)
    THEN ToolRes(f, "proposeDocumentChange", FALSE, FALSE, "AccessDenied",
                 NoPermissionRequest, NoData, {})
    ELSE [ToolRes(f, "proposeDocumentChange", TRUE, FALSE, "",
                  NoPermissionRequest, NoData, {})
            EXCEPT !.res.proposal = Proposal(targetPath, newContent, summary)]

\* a read tool that does the real work on its first invocation
createReadMarkdownFileTool_Eager(f, rootDirectory, filePath, reason) ==
    IF readOk(f, filePath)
    THEN ToolRes(f, "readMarkdownFile", TRUE, FALSE, "", NoPermissionRequest,
                 readFs(f, filePath), {"stat", "readFile"})
    ELSE ToolRes(f, "readMarkdownFile", FALSE, FALSE, "NotFound",
                 NoPermissionRequest, NoData, {"stat"})

\* createReadMarkdownFileTool(rootDirectory).execute({filePath, reason})
createReadMarkdownFileTool(f, rootDirectory, filePath, reason) ==
    IF rootDirectory # <<>> /\ ~validatePath(filePath, rootDirectory)
    THEN ToolRes(f, "readMarkdownFile", FALSE, FALSE, "AccessDenied",
                 NoPermissionRequest, NoData, {})
    ELSE IF ~exists(f, filePath)
    THEN ToolRes(f, "readMarkdownFile", FALSE, FALSE, "NotFound",
                 NoPermissionRequest, NoData, {"stat"})
    ELSE IF ~isFile(f, filePath)
    THEN ToolRes(f, "readMarkdownFile", FALSE, FALSE, "NotAFile",
                 NoPermissionRequest, NoData, {"stat"})
    ELSE IF ~endsWith(toLowerCase(filePath), DotMd)
    THEN ToolRes(f, "readMarkdownFile", FALSE, FALSE, "WrongFileType",
                 NoPermissionRequest, NoData, {"stat"})
    ELSE ToolRes(f, "readMarkdownFile", FALSE, TRUE, "",
                 PermissionRequest("readMarkdownFile", "read", reason, filePath,
                                   Undefined, Undefined, Undefined),
                 NoData, {"stat"})

\* createSearchMarkdownFilesTool(rootDirectory).execute({pattern, reason})
createSearchMarkdownFilesTool(f, rootDirectory, pattern, reason) ==
    IF rootDirectory = <<>>
    THEN ToolRes(f, "searchMarkdownFiles", FALSE, FALSE, "NoRootDirectory",
                 NoPermissionRequest, NoData, {})
    ELSE ToolRes(f, "searchMarkdownFiles", FALSE, TRUE, "",
                 PermissionRequest("searchMarkdownFiles", "search", reason, Undefined,
                                   OrStar(pattern), Undefined, Undefined),
                 NoData, {})

\* createSearchMarkdownContentTool(rootDirectory).execute({query, filePattern, reason})
createSearchMarkdownContentTool(f, rootDirectory, query, filePattern, reason) ==
    IF rootDirectory = <<>>
    THEN ToolRes(f, "searchMarkdownContent", FALSE, FALSE, "NoRootDirectory",
                 NoPermissionRequest, NoData, {})
    ELSE ToolRes(f, "searchMarkdownContent", FALSE, TRUE, "",
                 PermissionRequest("searchMarkdownContent", "search-content", reason,
                                   Undefined, Undefined, query, OrStar(filePattern)),
                 NoData, {})

\* createListFileTreeTool(rootDirectory).execute({reason})
createListFileTreeTool(f, rootDirectory, reason) ==
    IF rootDirectory = <<>>
    THEN ToolRes(f, "listFileTree", FALSE, FALSE, "NoRootDirectory",
                 NoPermissionRequest, NoData, {})
    ELSE ToolRes(f, "listFileTree", FALSE, TRUE, "",
                 PermissionRequest("listFileTree", "list-files", reason, Undefined,
                                   Undefined, Undefined, Undefined),
                 NoData, {})

\* ------------------------------------------------------------------------
\* SpecTools: the agent calls its tools, in any order, in a request whose
\* body carries rootDirectory or leaves it out
\* ------------------------------------------------------------------------
ToolArgPaths == {pRoot, pA, pD, pB, pN, pS, pUp}
ToolArgReasons == {"r1", "r2"}
ToolArgPatterns == {Undefined, <<>>, <<"a">>}
ToolArgQueries == {<<"c">>, <<"x">>}
ToolArgProposalPaths == {<<>>, <<" ">>, pA, pB, pS, pUp}
ToolArgContents == {"", "c5"}
ToolArgSummaries == {"s1"}
GatedTools ==
    {"readMarkdownFile", "searchMarkdownFiles", "searchMarkdownContent", "listFileTree"}
ToolRoots == {<<>>, pRoot, pWX}

ToolIdle == toolRoot = <<>> /\ toolOut = NoToolCall /\ toolCalls = 0

ToolInit == toolRoot \in ToolRoots /\ toolOut = NoToolCall /\ toolCalls = 0

\* one tool call: its result and the tree it leaves become the state
ToolCall(r) ==
    /\ toolCalls < MaxToolCalls
    /\ toolCalls' = toolCalls + 1
    /\ toolOut' = r.res
    /\ fs' = r.fs
    /\ UNCHANGED <<toolRoot, settingsJson, recentFiles, ToolFrame>>

ToolProposeDocumentChange ==
    \E p \in ToolArgProposalPaths, c \in ToolArgContents, summary \in ToolArgSummaries :
        ToolCall(createProposeDocumentChangeTool(fs, toolRoot, p, c, summary))

ToolReadMarkdownFile ==
    \E p \in ToolArgPaths, reason \in ToolArgReasons :
        ToolCall(createReadMarkdownFileTool(fs, toolRoot, p, reason))

ToolSearchMarkdownFiles ==
    \E pattern \in ToolArgPatterns, reason \in ToolArgReasons :
        ToolCall(createSearchMarkdownFilesTool(fs, toolRoot, pattern, reason))

ToolSearchMarkdownContent ==
    \E q \in ToolArgQueries, pattern \in ToolArgPatterns, reason \in ToolArgReasons :
        ToolCall(createSearchMarkdownContentTool(fs, toolRoot, q, pattern, reason))

ToolListFileTree ==
    \E reason \in ToolArgReasons :
        ToolCall(createListFileTreeTool(fs, toolRoot, reason))

ToolNext ==
    \/ ToolProposeDocumentChange
    \/ ToolReadMarkdownFile
    \/ ToolSearchMarkdownFiles
    \/ ToolSearchMarkdownContent
    \/ ToolListFileTree

\* the precondition checks of a gated tool passed for the request it returned
ToolPreconditions ==
    IF toolOut.tool = "readMarkdownFile"
    THEN LET p == toolOut.permissionRequest.filePath IN
         /\ p # Undefined
         /\ toolRoot # <<>> => validatePath(p, toolRoot)
         /\ isFile(fs, p)
         /\ endsWith(toLowerCase(p), DotMd)
    ELSE toolRoot # <<>>

C13_ProposalOnlyInsideRoot ==
    toolOut.tool = "proposeDocumentChange" =>
        /\ toolOut.io = {}
        /\ fs = HostTree
        /\ toolOut.success =>
              /\ toolOut.proposal.path \in ToolArgProposalPaths \ {<<>>}
              /\ toolOut.proposal.proposedContent \in ToolArgContents
              /\ toolOut.proposal.summary \in ToolArgSummaries
              /\ toolRoot # <<>>
              /\ InsideRoot(toolOut.proposal.path, toolRoot)

\* C34: a first invocation of readMarkdownFile returns success:false with
\* requiresPermission:true and a permissionRequest carrying the tool name and
\* the filePath and reason of the call exactly when the path is inside the
\* root, exists, is a regular file and ends in .md; in every other case it
\* returns success:false, requiresPermission:false and an error; its result
\* never holds file content.
C34_ReadGateAsksExactlyForMarkdownInRoot ==
    [][(toolCalls' # toolCalls /\ toolOut'.tool = "readMarkdownFile") =>
          \A filePath \in ToolArgPaths, reason \in ToolArgReasons :
              toolOut' = createReadMarkdownFileTool(fs, toolRoot, filePath, reason).res =>
                  /\ ~toolOut'.success
                  /\ toolOut'.data = NoData
                  /\ toolOut'.requiresPermission <=>
                        /\ toolRoot # <<>>
                        /\ InsideRoot(filePath, toolRoot)
                        /\ isFile(fs, filePath)
                        /\ endsWith(filePath, DotMd)
                  /\ toolOut'.requiresPermission =>
                        /\ toolOut'.permissionRequest.toolName = "readMarkdownFile"
                        /\ toolOut'.permissionRequest.filePath = filePath
                        /\ toolOut'.permissionRequest.reason = reason
                  /\ ~toolOut'.requiresPermission => toolOut'.error # ""]_vars

\* ------------------------------------------------------------------------
\* Creating, renaming and moving: name collisions
\* ------------------------------------------------------------------------
\* createMarkdownFile(parentPath, fileName); fault: fs.writeFile fails
createMarkdownFile(f, settings, parentPath, fileName, fault) ==
    LET name == IF endsWith(fileName, DotMd) THEN fileName ELSE fileName \o DotMd
        filePath == join(IF parentPath = <<>> THEN settings.rootDirectory
                         ELSE parentPath, name)
        resolvedPath == resolve(filePath)
        resolvedRoot == resolve(settings.rootDirectory)
        t == {filePath}
    IN  IF ~startsWith(resolvedPath, resolvedRoot)
        THEN [fs |-> f, res |-> Denied("createMarkdownFile", t)]
        ELSE IF exists(f, resolvedPath)
        THEN [fs |-> f,
              res |-> Failed("createMarkdownFile", t, "AlreadyExists", {"access"})]
        ELSE IF ~writeOk(f, resolvedPath) \/ fault
        THEN [fs |-> f,
              res |-> Failed("createMarkdownFile", t, "IOError", {"access", "writeFile"})]
        ELSE [fs |-> writeFs(f, resolvedPath, "m0"),
              res |-> Done("createMarkdownFile", t, {"access", "writeFile"})]

\* ------------------------------------------------------------------------
\* SpecNaming: any sequence of create, rename and move calls on the host
\* ------------------------------------------------------------------------
sDD == <<"d", "d">>
pDD == SegsToString(<<sW, sDD>>)           \* /w/dd    (sibling of /w/d)
pDDD == SegsToString(<<sW, sDD, sD>>)      \* /w/dd/d
pDInner == SegsToString(<<sW, sD, sD>>)    \* /w/d/d

NameParents == {<<>>, pD}
NameNames == {sA, sN, sD, <<".", ".">>}
NameStems == {<<"a">>, sN}
NameSources == {pA, pD}
MoveSources == {pD, pDD}
MoveFolders == {pD, pDInner, pDD, pDDD}

NameCreateFile ==
    \E p \in NameParents, n \in NameNames, fault \in BOOLEAN :
        /\ FsCall(createFile(fs, settingsJson, p, n, "c4", fault))
        /\ UNCHANGED <<settingsJson, recentFiles>>

NameCreateFolder ==
    \E p \in NameParents, n \in NameNames, fault \in BOOLEAN :
        /\ FsCall(createFolder(fs, settingsJson, p, n, fault))
        /\ UNCHANGED <<settingsJson, recentFiles>>

NameCreateMarkdownFile ==
    \E p \in NameParents, n \in NameStems, fault \in BOOLEAN :
        /\ FsCall(createMarkdownFile(fs, settingsJson, p, n, fault))
        /\ UNCHANGED <<settingsJson, recentFiles>>

NameRenameItem ==
    \E old \in NameSources, n \in NameNames, fault \in BOOLEAN :
        /\ FsCall(renameItem(fs, settingsJson, old, n, fault))
        /\ UNCHANGED <<settingsJson, recentFiles>>

NameMoveItem ==
    \E src \in MoveSources, folder \in MoveFolders, fault \in BOOLEAN :
        /\ FsCall(moveItem(fs, settingsJson, src, folder, fault))
        /\ UNCHANGED <<settingsJson, recentFiles>>

NamingNext ==
    \/ NameCreateFile
    \/ NameCreateFolder
    \/ NameCreateMarkdownFile
    \/ NameRenameItem
    \/ NameMoveItem

\* the directory a create call with this parentPath works in
TargetDir(parentPath) ==
    IF parentPath = <<>> THEN settingsJson.rootDirectory ELSE parentPath

\* every call of the five operations that can be made on the tree f, with
\* the resolved path it would create, and what the call answers
NameCalls(f) ==
    {[target |-> resolve(join(TargetDir(p), n)),
      out |-> createFile(f, settingsJson, p, n, "c4", fault)] :
        p \in NameParents, n \in NameNames, fault \in BOOLEAN}
    \cup {[target |-> resolve(join(TargetDir(p), n)),
           out |-> createFolder(f, settingsJson, p, n, fault)] :
        p \in NameParents, n \in NameNames, fault \in BOOLEAN}
    \cup {[target |-> resolve(join(TargetDir(p),
                                   IF endsWith(n, DotMd) THEN n ELSE n \o DotMd)),
           out |-> createMarkdownFile(f, settingsJson, p, n, fault)] :
        p \in NameParents, n \in NameStems, fault \in BOOLEAN}
    \cup {[target |-> resolve(join(dirname(resolve(old)), n)),
           out |-> renameItem(f, settingsJson, old, n, fault)] :
        old \in NameSources, n \in NameNames, fault \in BOOLEAN}
    \cup {[target |-> resolve(join(folder, basename(resolve(src)))),
           out |-> moveItem(f, settingsJson, src, folder, fault)] :
        src \in MoveSources, folder \in MoveFolders, fault \in BOOLEAN}

\* no path that exists before and after a step has another node after it
NoOverwrite(f, g) == \A q \in DOMAIN f : q \in DOMAIN g => g[q] = f[q]

\* C19 (as stated): whenever the target path of a create, rename or move
\* call exists, the call fails with the already-exists error and leaves the
\* file tree unchanged.
C19_CollisionIsAlreadyExists ==
    \A c \in NameCalls(fs) :
        exists(fs, c.target) =>
            /\ ~c.out.res.success
            /\ c.out.res.error = "AlreadyExists"
            /\ c.out.fs = fs

\* C19 (amended): whenever the target path of a create, rename or move call
\* exists, the call fails and leaves the file tree unchanged; its error is
\* the already-exists error unless the sandbox check or moveItem's
\* into-itself check, which come first, reject the call. No step of these
\* operations gives a path that existed before it another file or folder.
C19_CollisionNeverOverwrites ==
    /\ [](\A c \in NameCalls(fs) :
            exists(fs, c.target) =>
                /\ ~c.out.res.success
                /\ c.out.res.error \in {"AlreadyExists", "AccessDenied", "MoveIntoItself"}
                /\ c.out.res.io \subseteq {"access"}
                /\ c.out.fs = fs)
    /\ [][NoOverwrite(fs, fs')]_vars

C19_Witness ==
    /\ fsOps = 2
    /\ fsLast.op = "renameItem"
    /\ fsLast.error = "AlreadyExists"
    /\ fsLast.targets = {pA, pN}
    /\ readFs(fs, pA) = "c1"
    /\ isFile(fs, pN)
    /\ readFs(fs, pN) = "c4"

\* C20: moving a directory into itself or into one of its descendants fails
\* with an error and leaves the file tree unchanged; a move into any other
\* folder, a sibling whose name starts with the source's name included, is
\* not rejected by the into-itself check.
C20_MoveIntoItselfRejected ==
    \A src \in MoveSources, folder \in MoveFolders, fault \in BOOLEAN :
        LET r == moveItem(fs, settingsJson, src, folder, fault)
            into == IsSegPrefix(resolveSegs(src), resolveSegs(folder))
        IN  /\ (isDirectory(fs, src) /\ into) =>
                  /\ ~r.res.success
                  /\ r.res.error = "MoveIntoItself"
                  /\ r.res.io = {}
                  /\ r.fs = fs
            /\ ~into => r.res.error # "MoveIntoItself"

C20_Witness ==
    /\ fsOps = 2
    /\ fsLast.op = "moveItem"
    /\ fsLast.error = "MoveIntoItself"
    /\ fsLast.targets = {pDD, pDDD \o <<"/">> \o sDD}
    /\ isFile(fs, pDDD \o <<"/">> \o sB)
    /\ ~exists(fs, pD)

\* ------------------------------------------------------------------------
\* The execution endpoint (POST /api/chat/execute-tool)
\* ------------------------------------------------------------------------
Null == <<"#null">>

\* !x for a string that may be undefined
Falsy(x) == x = Undefined \/ x = Null \/ x = <<>>

\* String.prototype.includes
includes(s, sub) ==
    \E i \in 0..(Len(s) - Len(sub)) : SubSeq(s, i + 1, i + Len(sub)) = sub

\* directories the recursive helpers do not enter
SkippedSearchDirs ==
    {<<"n", "o", "d", "e", "_", "m", "o", "d", "u", "l", "e", "s">>,
     <<".", "g", "i", "t">>, <<".", "n", "e", "x", "t">>,
     <<"_", "_", "p", "y", "c", "a", "c", "h", "e", "_", "_">>}

SkippedTreeNames == SkippedSearchDirs \cup {<<".", "v", "s", "c", "o", "d", "e">>}

\* the text of a file content (one line)
TextOf(c) ==
    IF c = "c1" THEN <<"c">>
    ELSE IF c = "c2" THEN <<"x", "c">>
    ELSE IF c = "c3" THEN <<"x">>
    ELSE <<>>

\* findMarkdownFiles(dirPath, pattern): the paths found (a failing readdir
\* yields none)
RECURSIVE findMarkdownFiles(_, _, _)
findMarkdownFiles(f, dirPath, pattern) ==
    IF ~readdirOk(f, dirPath) THEN {}
    ELSE UNION {
        LET name == q[Len(q)]
            fullPath == join(dirPath, name)
        IN  IF f[q].type = "dir"
            THEN IF toLowerCase(name) \in SkippedSearchDirs THEN {}
                 ELSE findMarkdownFiles(f, fullPath, pattern)
            ELSE IF /\ endsWith(toLowerCase(name), DotMd)
                    /\ (Falsy(pattern) \/
                        includes(toLowerCase(name), toLowerCase(pattern)))
                 THEN {fullPath}
                 ELSE {}
        : q \in ChildrenOf(f, resolveSegs(dirPath)) }

\* searchInFile(filePath, query): the matching lines (none when the read or
\* the query fails)
searchInFile(f, filePath, query) ==
    IF ~readOk(f, filePath) \/ query = Undefined THEN {}
    ELSE LET text == TextOf(readFs(f, filePath))
         IN  IF includes(toLowerCase(text), toLowerCase(query))
             THEN {[line |-> 1, text |-> text]}
             ELSE {}

\* buildFileTree(dirPath): the paths of the entries listed
RECURSIVE buildFileTree(_, _)
buildFileTree(f, dirPath) ==
    IF ~readdirOk(f, dirPath) THEN {}
    ELSE UNION {
        LET name == q[Len(q)]
            fullPath == join(dirPath, name)
        IN  IF toLowerCase(name) \in SkippedTreeNames THEN {}
            ELSE IF f[q].type = "dir"
                 THEN {fullPath} \cup buildFileTree(f, fullPath)
                 ELSE {fullPath}
        : q \in ChildrenOf(f, resolveSegs(dirPath)) }

\* the JSON body of a response and the fs calls made for it
ExecRes(success, status, error, content, files, io) ==
    [success |-> success, status |-> status, error |-> error,
     content |-> content, files |-> files, io |-> io]

ExecFailure(status, error, io) == ExecRes(FALSE, status, error, NoData, {}, io)

\* an endpoint whose switch has no default case: an unrecognized tool name
\* reaches the listing of the root
executeTool_NoDefault(f, toolName, parameters, rootDirectory, fault) ==
    IF toolName = ""
    THEN ExecFailure(400, "ToolNameRequired", {})
    ELSE IF Falsy(rootDirectory) THEN ExecFailure(200, "NoRootDirectory", {})
    ELSE ExecRes(TRUE, 200, "", NoData, buildFileTree(f, rootDirectory), {"readdir"})

\* POST({toolName, parameters, rootDirectory}); fault: fs.readFile fails
executeTool(f, toolName, parameters, rootDirectory, fault) ==
    IF toolName = ""
    THEN ExecFailure(400, "ToolNameRequired", {})
    ELSE IF toolName = "readMarkdownFile"
    THEN LET filePath == parameters.filePath
         IN  IF ~Falsy(rootDirectory) /\ filePath = Undefined
             THEN ExecFailure(500, "InternalError", {})
             ELSE IF ~Falsy(rootDirectory) /\ ~validatePath(filePath, rootDirectory)
             THEN ExecFailure(200, "AccessDenied", {})
             ELSE IF filePath = Undefined \/ ~readOk(f, filePath) \/ fault
             THEN ExecFailure(200, "ReadFailed", {"readFile"})
             ELSE ExecRes(TRUE, 200, "", readFs(f, filePath), {filePath},
                          {"readFile", "stat"})
    ELSE IF toolName = "searchMarkdownFiles"
    THEN IF Falsy(rootDirectory)
         THEN ExecFailure(200, "NoRootDirectory", {})
         ELSE ExecRes(TRUE, 200, "", NoData,
                      findMarkdownFiles(f, rootDirectory, parameters.pattern),
                      {"readdir"})
    ELSE IF toolName = "searchMarkdownContent"
    THEN IF Falsy(rootDirectory)
         THEN ExecFailure(200, "NoRootDirectory", {})
         ELSE LET files == findMarkdownFiles(f, rootDirectory, parameters.filePattern)
              IN  ExecRes(TRUE, 200, "", NoData,
                          {file \in files :
                              searchInFile(f, file, parameters.query) # {}},
                          {"readdir", "readFile"})
    ELSE IF toolName = "listFileTree"
    THEN IF Falsy(rootDirectory)
         THEN ExecFailure(200, "NoRootDirectory", {})
         ELSE ExecRes(TRUE, 200, "", NoData, buildFileTree(f, rootDirectory),
                      {"readdir"})
    ELSE ExecFailure(400, "UnknownTool", {})

\* ------------------------------------------------------------------------
\* SpecEndpoint: any client posts any body to the execution endpoint of a
\* host whose configured root is /w
\* ------------------------------------------------------------------------
\* a request body; a missing toolName is "", a missing rootDirectory is
\* Undefined, missing parameters are NoPermissionRequest
Body(toolName, parameters, rootDirectory) ==
    [toolName |-> toolName, parameters |-> parameters, rootDirectory |-> rootDirectory]

NoBody == Body("none", NoPermissionRequest, Undefined)

\* the tools whose case destructures `parameters`
ParameterTools == {"readMarkdownFile", "searchMarkdownFiles", "searchMarkdownContent"}

\* POST(req): destructuring missing parameters throws into the outer catch
POST(f, body, fault) ==
    IF body.toolName \in ParameterTools /\ body.parameters = NoPermissionRequest
    THEN ExecFailure(500, "InternalError", {})
    ELSE executeTool(f, body.toolName, body.parameters, body.rootDirectory, fault)

sT == <<"t">>
pT == SegsToString(<<sW, sT>>)             \* /w/t  (a regular file, not markdown)
pSlash == <<"/">>

\* the host tree with a file that is not markdown
EndpointTree == [q \in DOMAIN HostTree \cup {<<sW, sT>>} |->
                    IF q = <<sW, sT>> THEN FileOf("c1") ELSE HostTree[q]]

PostToolNames ==
    {"", "bogus", "readMarkdownFile", "searchMarkdownFiles", "searchMarkdownContent",
     "listFileTree"}
PostPaths == {Undefined, pA, pD, pT, pS}
PostPatterns == {Undefined, <<"a">>}
PostQueries == {<<"c">>}
PostRoots == {Undefined, pRoot, pWX, pSlash}
PostParameters ==
    {NoPermissionRequest}
    \cup {PermissionRequest("readMarkdownFile", "read", "r1", p, Undefined, Undefined,
                            Undefined) : p \in PostPaths}
    \cup {PermissionRequest("searchMarkdownFiles", "search", "r1", Undefined, pat,
                            Undefined, Undefined) : pat \in PostPatterns}
    \cup {PermissionRequest("searchMarkdownContent", "search-content", "r1", Undefined,
                            Undefined, q, pat) : q \in PostQueries, pat \in PostPatterns}

PostIdle == postBody = NoBody /\ postOut = ExecFailure(0, "", {}) /\ posts = 0

PostRequest ==
    \E toolName \in PostToolNames, parameters \in PostParameters,
       rootDirectory \in PostRoots, fault \in BOOLEAN :
        /\ posts < MaxPosts
        /\ posts' = posts + 1
        /\ postBody' = Body(toolName, parameters, rootDirectory)
        /\ postOut' = POST(fs, postBody', fault)
        /\ UNCHANGED <<hostVars, PostFrame>>

EndpointNext == PostRequest

\* the paths a request makes the endpoint read or list
PostTargets(body) ==
    IF body.toolName = "readMarkdownFile" THEN {body.parameters.filePath}
    ELSE {body.rootDirectory}

\* C14: whatever rootDirectory the body carries or omits, every path the
\* endpoint reads, searches or lists, and every path it returns, is inside
\* the configured sandbox root (settings.rootDirectory).
C14_EndpointStaysInSandbox ==
    postOut.io # {} =>
        \A p \in (PostTargets(postBody) \cup postOut.files) \ {Undefined} :
            InsideRoot(p, settingsJson.rootDirectory)

\* C15: the execution of readMarkdownFile returns content only for a regular
\* file whose name ends in .md; for any other target it returns success:false
\* and no content.
C15_ReadsMarkdownOnly ==
    postBody.toolName = "readMarkdownFile" =>
        LET p == postBody.parameters.filePath
            markdown == /\ p # Undefined
                        /\ isFile(fs, p)
                        /\ endsWith(toLowerCase(basename(resolve(p))), DotMd)
        IN  /\ postOut.success => markdown
            /\ ~markdown => (~postOut.success /\ postOut.content = NoData)

\* C18: a request with a missing or unrecognized toolName gets a structured
\* response with success:false, an error text and status 400, and makes the
\* endpoint touch no file.
C18_UnknownToolIsStructuredFailure ==
    (posts > 0 /\ postBody.toolName \notin
        {"readMarkdownFile", "searchMarkdownFiles", "searchMarkdownContent",
         "listFileTree"}) =>
        /\ ~postOut.success
        /\ postOut.error \in {"ToolNameRequired", "UnknownTool"}
        /\ postOut.error = "ToolNameRequired" <=> postBody.toolName = ""
        /\ postOut.status = 400
        /\ postOut.content = NoData
        /\ postOut.files = {}
        /\ postOut.io = {}

C18_Witness ==
    /\ posts > 0
    /\ postBody.toolName = "bogus"
    /\ postBody.parameters.filePath = pA
    /\ postBody.rootDirectory = pSlash
    /\ postOut.error = "UnknownTool"

\* ------------------------------------------------------------------------
\* Model resolution (lib/models.ts) and the chat route's model validation
\* ------------------------------------------------------------------------
\* MODELS: model id -> provider
MODELS ==
    [id \in {"gpt-5.2", "gpt-5.2-turbo", "o3-preview", "gpt-4o", "gpt-4o-mini"}
        |-> "openai"]
    @@ [id \in {"claude-sonnet-4-20250514", "claude-3-5-sonnet-latest"}
        |-> "anthropic"]
    @@ [id \in {"gemini-3-pro-preview", "gemini-3-flash-preview", "gemini-2.5-pro",
                "gemini-2.0-flash-exp"} |-> "google"]

ALLOWED_MODEL_IDS == DOMAIN MODELS

DEFAULT_MODEL_ID == "gemini-3-flash-preview"

\* a body without a model field
NoModel == "#undefined"

isValidModelId(id) == id \in ALLOWED_MODEL_IDS

\* what a call answers: the HTTP status (0 for a function call), the provider
\* whose factory was called and the model id given to it
Resolution(by, status, provider, model) ==
    [by |-> by, status |-> status, provider |-> provider, model |-> model]

NoResolution == Resolution("none", 0, "none", "none")

\* getModelInstance(modelId): the language model of the provider's factory
getModelInstance(id) ==
    IF id \notin DOMAIN MODELS
    THEN Resolution("getModelInstance", 0, "openai", "gpt-4o-mini")
    ELSE Resolution("getModelInstance", 0, MODELS[id], id)

\* getProviderFromModelId(modelId)
getProviderFromModelId(id) ==
    Resolution("getProviderFromModelId", 0,
               IF id \in DOMAIN MODELS THEN MODELS[id] ELSE "openai", "none")

\* POST /api/chat up to the creation of the agent's model
ChatPOST(bodyModel) ==
    LET model == IF bodyModel = NoModel THEN DEFAULT_MODEL_ID ELSE bodyModel
    IN  IF ~isValidModelId(model)
        THEN Resolution("POST", 400, "none", "none")
        ELSE [getModelInstance(model) EXCEPT !.by = "POST", !.status = 200]

\* ------------------------------------------------------------------------
\* SpecModels: chat requests and resolution calls with any model identifier
\* ------------------------------------------------------------------------
ModelArgs ==
    ALLOWED_MODEL_IDS
    \cup {NoModel, "", "#null", "bogus", "GPT-4O", "gpt-4", "gpt-4o-mini ", "claude"}

ModelIdle == modelId = NoModel /\ modelOut = NoResolution /\ modelCalls = 0

ModelCall(id, out) ==
    /\ modelCalls < MaxModelCalls
    /\ modelCalls' = modelCalls + 1
    /\ modelId' = id
    /\ modelOut' = out
    /\ UNCHANGED ModelFrame

ModelChatPOST == \E id \in ModelArgs : ModelCall(id, ChatPOST(id))

ModelGetModelInstance ==
    \E id \in ModelArgs \ {NoModel} : ModelCall(id, getModelInstance(id))

ModelGetProviderFromModelId ==
    \E id \in ModelArgs \ {NoModel} : ModelCall(id, getProviderFromModelId(id))

ModelsNext ==
    \/ ModelChatPOST
    \/ ModelGetModelInstance
    \/ ModelGetProviderFromModelId

\* C17 (as stated): a chat request whose model identifier is not in the
\* allow-list is answered 400 and reaches no provider, and neither the request
\* nor the resolution functions answer an identifier that is not in the
\* allow-list with a provider or a model.
C17_UnknownModelFailsClosed ==
    (modelOut # NoResolution /\ modelId \notin ALLOWED_MODEL_IDS \cup {NoModel}) =>
        /\ modelOut.provider = "none"
        /\ modelOut.model = "none"
        /\ modelOut.by = "POST" => modelOut.status = 400

\* ------------------------------------------------------------------------
\* The chat panel: conversation, assistant turns and the permission gate
\* ------------------------------------------------------------------------
\* pendingPermission === null
NoPermission ==
    [id |-> 0, toolName |-> "none", action |-> "none", reason |-> "none",
     parameters |-> NoPermissionRequest, timestamp |-> 0, status |-> "none"]

\* the ToolPermissionRequest onFinish builds from a tool part at time t
ToolPermissionRequest(t, part) ==
    LET pr == part.permissionRequest
    IN  [id |-> t,
         toolName |-> IF pr.toolName = "" THEN part.tool ELSE pr.toolName,
         action |-> IF pr.action = "" THEN "execute" ELSE pr.action,
         reason |-> IF pr.reason = "" THEN "No reason provided" ELSE pr.reason,
         parameters |-> pr,
         timestamp |-> t,
         status |-> "pending"]

\* pendingChange === null
NoChange ==
    [filePath |-> Null, originalContent |-> NoData, proposedContent |-> NoData,
     summary |-> NoData, timestamp |-> 0]

\* the PendingChange onFinish builds from a proposal part at time t
PendingChange(t, part, currentFilePath, currentContent) ==
    [filePath |-> IF ~Falsy(part.proposal.path) THEN part.proposal.path
                  ELSE IF ~Falsy(currentFilePath) THEN currentFilePath
                  ELSE <<>>,
     originalContent |-> currentContent,
     proposedContent |-> IF part.proposal.proposedContent = NoData THEN ""
                         ELSE part.proposal.proposedContent,
     summary |-> IF part.proposal.summary \in {NoData, ""}
                 THEN "AI proposed changes" ELSE part.proposal.summary,
     timestamp |-> t]

\* Home's effect on [activeFile, pendingChange]: a change staged for another
\* path than the active file is cleared
HomeEffect(file, change) ==
    IF change # NoChange /\ file # change.filePath THEN NoChange ELSE change

\* the payload of a message that carries no tool result
NoPayload == [content |-> NoData, files |-> {}]

\* a message the client sends; requestId names the permission request it
\* reports on (0: none)
Message(kind, toolName, requestId, data) ==
    [kind |-> kind, toolName |-> toolName, requestId |-> requestId, data |-> data]

\* the body's fileContent is recorded only where bodyContent started as NoData
NotRecorded == "#notrecorded"

Recorded(fileContent) == IF bodyContent = NotRecorded THEN NotRecorded ELSE fileContent

\* a sendMessage whose fileContent is what the file held when it was opened
sendMessage_AsOpened(m) ==
    /\ messages' = Append(messages, m)
    /\ chatStatus' = "submitted"
    /\ bodyRoot' = settingsJson.rootDirectory
    /\ bodyContent' = Recorded(IF activeFile = Null THEN "" ELSE readFs(fs, activeFile))

\* sendMessage(text, {body}): the message joins the conversation and an
\* assistant turn starts with the body's rootDirectory; every caller reads
\* the body's fileContent with useAppStore.getState().editorContent
sendMessage(m) ==
    /\ messages' = Append(messages, m)
    /\ chatStatus' = "submitted"
    /\ bodyRoot' = settingsJson.rootDirectory
    /\ bodyContent' = Recorded(editorContent)

\* onSubmit: the user sends a text
onSubmit ==
    /\ chatStatus = "ready"
    /\ sendMessage(Message("user", "none", 0, NoPayload))
    /\ UNCHANGED <<gateVars, toasts, now, storeVars, pendingChange, panelVars,
                   queueVars, hostVars, SessionFrame>>

First(S) == CHOOSE i \in S : \A j \in S : i <= j

\* an onFinish that folds a new proposal into the PendingChange already staged
onFinish_Accumulates(parts) ==
    LET gated == {i \in 1..Len(parts) : parts[i].requiresPermission}
        proposals == {i \in 1..Len(parts) : parts[i].tool = "proposeDocumentChange"}
    IN  IF gated # {}
        THEN /\ pendingPermission' = ToolPermissionRequest(now', parts[First(gated)])
             /\ toasts' = "Permission Required"
             /\ UNCHANGED <<pendingChange, isAccepting, changeOutcome>>
        ELSE IF proposals # {}
        THEN LET part == parts[First(proposals)]
                 fresh == PendingChange(now', part, activeFile, editorContent)
             IN  IF part.success
                 THEN /\ pendingChange' =
                            HomeEffect(activeFile,
                                IF pendingChange = NoChange THEN fresh
                                ELSE [fresh EXCEPT
                                        !.timestamp = pendingChange.timestamp,
                                        !.originalContent = pendingChange.originalContent])
                      /\ changeOutcome' = IF pendingChange' = NoChange THEN "discarded"
                                          ELSE IF pendingChange # NoChange THEN "replaced"
                                          ELSE "staged"
                      /\ isAccepting' = IF pendingChange = NoChange THEN FALSE
                                        ELSE isAccepting
                      /\ toasts' = "Changes Proposed"
                      /\ UNCHANGED pendingPermission
                 ELSE /\ toasts' = "Proposal Failed"
                      /\ UNCHANGED <<pendingPermission, pendingChange, isAccepting,
                                     changeOutcome>>
        ELSE UNCHANGED <<pendingPermission, pendingChange, isAccepting, toasts,
                         changeOutcome>>

\* onFinish({message}) for the tool parts of the finished assistant message
onFinish(parts) ==
    LET gated == {i \in 1..Len(parts) : parts[i].requiresPermission}
        proposals == {i \in 1..Len(parts) : parts[i].tool = "proposeDocumentChange"}
    IN  IF gated # {}
        THEN /\ pendingPermission' = ToolPermissionRequest(now', parts[First(gated)])
             /\ toasts' = "Permission Required"
             /\ UNCHANGED <<pendingChange, isAccepting, changeOutcome>>
        ELSE IF proposals # {}
        THEN LET part == parts[First(proposals)]
             IN  IF part.success
                 THEN /\ pendingChange' =
                            HomeEffect(activeFile,
                                PendingChange(now', part, activeFile, editorContent))
                      /\ changeOutcome' = IF pendingChange' = NoChange THEN "discarded"
                                          ELSE IF pendingChange # NoChange THEN "replaced"
                                          ELSE "staged"
                      \* a panel mounted by this change starts with isAccepting false
                      /\ isAccepting' = IF pendingChange = NoChange THEN FALSE
                                        ELSE isAccepting
                      /\ toasts' = "Changes Proposed"
                      /\ UNCHANGED pendingPermission
                 ELSE /\ toasts' = "Proposal Failed"
                      /\ UNCHANGED <<pendingPermission, pendingChange, isAccepting,
                                     changeOutcome>>
        ELSE UNCHANGED <<pendingPermission, pendingChange, isAccepting, toasts,
                         changeOutcome>>

\* the assistant turn ends: the request is over, time has passed, the message
\* carries the results of the tools the agent called (parts), and onFinish runs
AssistantTurnOf(parts, maxTurns) ==
    /\ chatStatus = "submitted"
    /\ now < maxTurns
    /\ now' = now + 1
    /\ chatStatus' = "ready"
    /\ bodyContent' = Recorded(NoData)
    /\ onFinish(parts)
    /\ UNCHANGED <<messages, bodyRoot, approving, execCalls, resolutions,
                   storeVars, alerts, queueVars, hostVars, sbVars, fsVars, toolVars,
                   postVars, modelVars, modalVars, recentVars, agentVars, denials, pc>>

AssistantTurn(turns, maxTurns) ==
    \E parts \in turns : AssistantTurnOf(parts, maxTurns) /\ UNCHANGED lastParts

\* handlePermissionApprove up to its await: the request goes out
handlePermissionApprove ==
    /\ pendingPermission # NoPermission
    /\ Len(execCalls) < MaxApproves
    /\ execCalls' = Append(execCalls,
            [requestId |-> pendingPermission.id,
             toolName |-> pendingPermission.toolName,
             parameters |-> pendingPermission.parameters,
             rootDirectory |-> settingsJson.rootDirectory])
    /\ approving' = Append(approving,
            [request |-> pendingPermission,
             rootDirectory |-> settingsJson.rootDirectory])
    /\ UNCHANGED <<pendingPermission, resolutions, chatVars, toasts, now, storeVars,
                   pendingChange, panelVars, queueVars, hostVars, SessionFrame>>

RemoveAt(q, i) == SubSeq(q, 1, i - 1) \o SubSeq(q, i + 1, Len(q))

ExecFaults == {"none", "io", "network"}

\* handlePermissionApprove from its await on: the endpoint answers (or the
\* fetch fails), the outcome is shown and the pending slot is cleared
handlePermissionApproveResume ==
    \E i \in 1..Len(approving), fault \in ExecFaults :
        LET h == approving[i]
            result == executeTool(fs, h.request.toolName, h.request.parameters,
                                  h.rootDirectory, fault = "io")
            outcome == IF fault = "network" THEN "threw"
                       ELSE IF result.success THEN "success" ELSE "failed"
        IN  /\ approving' = RemoveAt(approving, i)
            /\ IF outcome = "success"
               THEN /\ toasts' = "Tool Executed"
                    /\ sendMessage(Message("result", h.request.toolName, h.request.id,
                                           [content |-> result.content,
                                            files |-> result.files]))
               ELSE /\ toasts' =
                          (IF outcome = "threw" THEN "Execution Error" ELSE "Tool Failed")
                    /\ UNCHANGED <<messages, chatStatus, bodyRoot, bodyContent>>
            /\ pendingPermission' = NoPermission
            /\ resolutions' = Append(resolutions,
                                     [id |-> h.request.id, outcome |-> outcome])
            /\ UNCHANGED <<execCalls, now, storeVars, pendingChange,
                           panelVars, queueVars, hostVars, SessionFrame>>

\* ids of the requests the user has denied
DeniedIds ==
    {messages[i].requestId : i \in {j \in 1..Len(messages) : messages[j].kind = "denial"}}

\* number of endpoint requests issued for a permission request
CallsFor(calls, id) == Cardinality({i \in 1..Len(calls) : calls[i].requestId = id})

\* number of approve handlers awaiting the endpoint for a permission request
ApprovingFor(handlers, id) ==
    Cardinality({i \in 1..Len(handlers) : handlers[i].request.id = id})

\* number of outcome messages in the conversation for a permission request
OutcomesFor(msgs, id) == Cardinality({i \in 1..Len(msgs) : msgs[i].requestId = id})

\* a deny handler that also calls the execution endpoint
handlePermissionDeny_Executes ==
    /\ pendingPermission # NoPermission
    /\ Len(execCalls) < MaxApproves
    /\ toasts' = "Permission Denied"
    /\ sendMessage(Message("denial", pendingPermission.toolName,
                           pendingPermission.id, NoPayload))
    /\ execCalls' = Append(execCalls,
            [requestId |-> pendingPermission.id,
             toolName |-> pendingPermission.toolName,
             parameters |-> pendingPermission.parameters,
             rootDirectory |-> settingsJson.rootDirectory])
    /\ pendingPermission' = NoPermission
    /\ resolutions' = Append(resolutions,
                             [id |-> pendingPermission.id, outcome |-> "denied"])
    /\ UNCHANGED <<approving, now, storeVars, pendingChange,
                   panelVars, queueVars, hostVars, SessionFrame>>

\* a deny handler that leaves the request in the pending slot
handlePermissionDeny_KeepsPending ==
    /\ pendingPermission # NoPermission
    /\ pendingPermission.id \notin DeniedIds
    /\ toasts' = "Permission Denied"
    /\ sendMessage(Message("denial", pendingPermission.toolName,
                           pendingPermission.id, NoPayload))
    /\ resolutions' = Append(resolutions,
                             [id |-> pendingPermission.id, outcome |-> "denied"])
    /\ UNCHANGED <<pendingPermission, approving, execCalls, now, storeVars,
                   pendingChange, panelVars, queueVars, hostVars, SessionFrame>>

\* handlePermissionDeny
handlePermissionDeny ==
    /\ pendingPermission # NoPermission
    /\ toasts' = "Permission Denied"
    /\ sendMessage(Message("denial", pendingPermission.toolName,
                           pendingPermission.id, NoPayload))
    /\ pendingPermission' = NoPermission
    /\ resolutions' = Append(resolutions,
                             [id |-> pendingPermission.id, outcome |-> "denied"])
    /\ UNCHANGED <<approving, execCalls, now, storeVars, pendingChange,
                   panelVars, queueVars, hostVars, SessionFrame>>

\* ------------------------------------------------------------------------
\* SpecPermission: a chat session in which the agent calls gated tools
\* ------------------------------------------------------------------------
\* the tool parts of one assistant message
GateParts ==
    {createReadMarkdownFileTool(fs, bodyRoot, p, "r1").res : p \in {pA, pN}}
    \cup {createSearchMarkdownFilesTool(fs, bodyRoot, Undefined, "r2").res,
          createProposeDocumentChangeTool(fs, bodyRoot, pA, "c5", "s1").res}

GateTurns ==
    {<<>>} \cup {<<a>> : a \in GateParts} \cup {<<a, b>> : a, b \in GateParts}

GateAssistantTurn == AssistantTurn(GateTurns, MaxTurns)

GateNext ==
    \/ onSubmit
    \/ GateAssistantTurn
    \/ handlePermissionApprove
    \/ handlePermissionApproveResume
    \/ handlePermissionDeny

\* C3: a call to the execution endpoint is issued only by the approve handler,
\* for the request that is pending at that moment and has not been denied; no
\* other step issues a call. Deny appends one denial message for the pending
\* request to the conversation and issues no call, starts no approve handler
\* and touches no file.
C3_ExecutionOnlyOnApprove ==
    [][/\ execCalls' # execCalls =>
            /\ handlePermissionApprove
            /\ pendingPermission # NoPermission
            /\ pendingPermission.id \notin DeniedIds
            /\ Len(execCalls') = Len(execCalls) + 1
            /\ execCalls'[Len(execCalls')].requestId = pendingPermission.id
       /\ handlePermissionDeny =>
            /\ messages' = Append(messages,
                    Message("denial", pendingPermission.toolName,
                            pendingPermission.id, NoPayload))
            /\ execCalls' = execCalls
            /\ approving' = approving
            /\ fs' = fs]_vars

C3_Witness ==
    /\ DeniedIds # {}
    /\ Len(execCalls) = 1
    /\ execCalls[1].requestId \notin DeniedIds
    /\ approving = <<>>

\* C6: once a request has been denied, no later step issues an endpoint call
\* for its id, starts an approve handler for it or makes it pending again.
C6_DenialIsTerminal ==
    [][\A id \in DeniedIds :
          /\ CallsFor(execCalls', id) = CallsFor(execCalls, id)
          /\ ApprovingFor(approving', id) <= ApprovingFor(approving, id)
          /\ pendingPermission'.id # id]_vars

C6_Witness ==
    \E id \in DeniedIds :
        \E i \in 1..Len(execCalls) : execCalls[i].requestId > id

\* C5 (as stated): every permission request is resolved exactly once: it is
\* executed at most once, never both approved and denied, and at most one
\* outcome message for it reaches the conversation.
C5_ResolvedExactlyOnce ==
    \A id \in 1..now :
        /\ CallsFor(execCalls, id) <= 1
        /\ ~(CallsFor(execCalls, id) >= 1 /\ id \in DeniedIds)
        /\ OutcomesFor(messages, id) <= 1

\* C7 (as stated): after every resolution of a permission request the
\* conversation holds a message reporting its outcome: the result after a
\* successful execution, the error after a failed or thrown one, the denial
\* after deny.
C7_OutcomeAlwaysReported ==
    \A i \in 1..Len(resolutions) :
        \E j \in 1..Len(messages) :
            /\ messages[j].requestId = resolutions[i].id
            /\ messages[j].kind =
                  (IF resolutions[i].outcome = "success" THEN "result"
                   ELSE IF resolutions[i].outcome = "denied" THEN "denial"
                   ELSE "error")

ChatQuiet ==
    /\ messages = <<>>
    /\ chatStatus = "ready"
    /\ bodyRoot = <<>>
    /\ pendingPermission = NoPermission
    /\ approving = <<>>
    /\ execCalls = <<>>
    /\ resolutions = <<>>
    /\ toasts = ""
    /\ now = 0
    /\ lastParts = <<>>

ChatIdle == ChatQuiet /\ bodyContent = NotRecorded

StoreIdle ==
    /\ activeFile = Null
    /\ editorContent = ""
    /\ isDirty = FALSE
    /\ editorVersion = 0
    /\ pendingChange = NoChange
    /\ isAccepting = FALSE
    /\ alerts = ""
    /\ changeOutcome = "none"
    /\ serverActions = <<>>
    /\ saveTimer = FALSE
    /\ edits = 0

\* the settings modal is closed and has not been used
ModalIdle ==
    /\ isSettingsModalOpen = FALSE
    /\ localSettings = settingsJson
    /\ validationStatus = "null"
    /\ isValidating = FALSE
    /\ isSaving = FALSE
    /\ validated = {}
    /\ dirEdits = 0

\* the paths of a recent-files list, in its order
PathsOf(recent) == [i \in 1..Len(recent) |-> recent[i].path]

NoRecentCall == [op |-> "none", path |-> <<>>, success |-> FALSE, thrown |-> FALSE]

\* no recent-files action has been called
RecentIdle ==
    /\ recentLast = NoRecentCall
    /\ recentOps = 0
    /\ addOrder = PathsOf(recentFiles)

\* no handler is between two of its statements
PcIdle ==
    [handler |-> "none", at |-> 0, path |-> Null, content |-> NoData, version |-> 0,
     request |-> NoPermission, data |-> NoPayload]

\* the conversation endpoint has received no request, no call was rejected
AgentIdle ==
    /\ chatRequest = <<>>
    /\ chatResponse = 0
    /\ toolChoice = "none"
    /\ agentSteps = <<>>
    /\ denials = <<>>
    /\ pc = PcIdle

SessionIdle == ChatIdle /\ StoreIdle /\ ModalIdle /\ RecentIdle /\ AgentIdle

\* the gated calls of GateParts as the agent made them: tool name and the
\* parameters it supplied (Undefined: left out)
GateAgentCalls ==
    {[toolName |-> "readMarkdownFile", filePath |-> p, pattern |-> Undefined,
      query |-> Undefined, filePattern |-> Undefined] : p \in {pA, pN}}
    \cup {[toolName |-> "searchMarkdownFiles", filePath |-> Undefined,
           pattern |-> Undefined, query |-> Undefined, filePattern |-> Undefined]}

\* C16: every request the approve handler sends to the execution endpoint
\* carries the tool name of a gated call of the agent, exactly the parameter
\* values the agent supplied in that call (a parameter it left out stays
\* left out), and the sandbox root of the settings at approval time.
C16_ApproveForwardsAgentCall ==
    \A i \in 1..Len(execCalls) :
        LET call == execCalls[i]
        IN  /\ call.rootDirectory = settingsJson.rootDirectory
            /\ \E a \in GateAgentCalls :
                  /\ call.toolName = a.toolName
                  /\ call.parameters.filePath = a.filePath
                  /\ call.parameters.pattern = a.pattern
                  /\ call.parameters.query = a.query
                  /\ call.parameters.filePattern = a.filePattern

\* the markdown files under root, outside the skipped directories, whose
\* file name contains pattern case-insensitively (all of them when the
\* agent gave no pattern)
MarkdownFilesUnder(f, root, pattern) ==
    LET rootSegs == resolveSegs(root)
        name(q) == toLowerCase(q[Len(q)])
    IN  {SegsToString(q) : q \in
            {q \in DOMAIN f :
                /\ f[q].type = "file"
                /\ Len(q) > Len(rootSegs)
                /\ IsSegPrefix(rootSegs, q)
                /\ \A i \in (Len(rootSegs) + 1)..(Len(q) - 1) :
                      toLowerCase(q[i]) \notin SkippedSearchDirs
                /\ endsWith(name(q), DotMd)
                /\ (Falsy(pattern) \/ includes(name(q), toLowerCase(pattern)))}}

\* C35: end to end after approval, a searchMarkdownFiles the agent called
\* without a pattern returns every .md file under the root outside the
\* skipped directories, and one called with a pattern exactly those whose
\* file name contains the pattern case-insensitively (searchMarkdownContent
\* without a filePattern searches the same files): the result message the
\* approve handler sends holds the files of a call of the agent.
C35_ApprovedSearchFindsAgentsFiles ==
    \A i \in 1..Len(messages) :
        (messages[i].kind = "result" /\ messages[i].toolName = "searchMarkdownFiles") =>
            \E a \in GateAgentCalls :
                /\ a.toolName = "searchMarkdownFiles"
                /\ messages[i].data.files =
                      MarkdownFilesUnder(fs, settingsJson.rootDirectory, a.pattern)

\* ------------------------------------------------------------------------
\* The change proposal pipeline: editor, diff review panel, server actions
\* ------------------------------------------------------------------------
\* editor.blocksToMarkdownLossy(editor.document) for a document that was
\* loaded from, or typed as, the markdown c: "r6" is not in the form the
\* editor writes
blocksToMarkdownLossy(c) == IF c = "r6" THEN "c6" ELSE c

\* Buffer.from(content).length / stats.size
ByteLength(c) == Len(TextOf(c)) + (IF c = "" THEN 0 ELSE 1)

\* an accept action that reports success without writing the file
acceptProposedChange_NoWrite(f, settings, filePath, proposedContent, fault) ==
    [fs |-> f,
     res |-> [success |-> TRUE, error |-> "",
              bytesWritten |-> ByteLength(proposedContent)]]

\* acceptProposedChange(filePath, proposedContent); fault: fs.writeFile fails
acceptProposedChange(f, settings, filePath, proposedContent, fault) ==
    LET resolvedPath == resolve(filePath)
        resolvedRoot == resolve(settings.rootDirectory)
        dir == dirname(resolvedPath)
        fail(g, error) ==
            [fs |-> g, res |-> [success |-> FALSE, error |-> error, bytesWritten |-> 0]]
    IN  IF ~startsWith(resolvedPath, resolvedRoot) THEN fail(f, "AccessDenied")
        ELSE IF ~mkdirOk(f, dir) THEN fail(f, "IOError")
        ELSE IF ~writeOk(mkdirFs(f, dir), resolvedPath) \/ fault
        THEN fail(mkdirFs(f, dir), "IOError")
        ELSE [fs |-> writeFs(mkdirFs(f, dir), resolvedPath, proposedContent),
              res |-> [success |-> TRUE, error |-> "",
                       bytesWritten |-> ByteLength(proposedContent)]]

\* an addRecentFile that keeps the older entry of the path
addRecentFile_NoDedup(recent, filePath, action) ==
    LET updated == <<[path |-> filePath, action |-> action]>> \o recent
    IN  SubSeq(updated, 1, IF Len(updated) < MAX_RECENT_FILES THEN Len(updated)
                           ELSE MAX_RECENT_FILES)

\* addRecentFile(filePath, action) on the stored list
addRecentFile(recent, filePath, action) ==
    LET updated == <<[path |-> filePath, action |-> action]>> \o
                   SelectSeq(recent, LAMBDA e : e.path # filePath)
    IN  SubSeq(updated, 1, IF Len(updated) < MAX_RECENT_FILES THEN Len(updated)
                           ELSE MAX_RECENT_FILES)

\* a server action the client has called: the calls of one client are
\* answered one at a time, in call order
ServerCall(kind, targetPath, content) ==
    [kind |-> kind, path |-> targetPath, content |-> content]

HeadIs(kind) == serverActions # <<>> /\ Head(serverActions).kind = kind

\* handleSelectFile up to its await: a markdown file of the tree is chosen
SelectableFiles == {pA, pB}

handleSelectFile ==
    \E file \in SelectableFiles :
        /\ edits < MaxEdits
        /\ edits' = edits + 1
        /\ serverActions' = Append(serverActions, ServerCall("readFile", file, NoData))
        /\ UNCHANGED <<saveTimer, chatVars, gateVars, toasts, now, storeVars,
                       pendingChange, panelVars, hostVars, SessionFrame>>

\* handleSelectFile after readFile: the file becomes the active file (a
\* failed read throws and leaves the store alone); Home's effect follows
handleSelectFileResume ==
    /\ HeadIs("readFile")
    /\ \E fault \in BOOLEAN :
        LET call == Head(serverActions)
            r == readFile(fs, settingsJson, call.path, fault)
        IN  IF r.res.success
            THEN /\ activeFile' = call.path
                 /\ editorContent' = r.res.content
                 /\ isDirty' = FALSE
                 /\ pendingChange' = HomeEffect(call.path, pendingChange)
                 /\ changeOutcome' = IF pendingChange' # pendingChange THEN "discarded"
                                     ELSE changeOutcome
            ELSE UNCHANGED <<activeFile, editorContent, isDirty, pendingChange,
                             changeOutcome>>
    /\ serverActions' = Tail(serverActions)
    /\ UNCHANGED <<editorVersion, saveTimer, edits, chatVars, gateVars, toasts, now,
                   isAccepting, alerts, hostVars, SessionFrame>>

\* handleEditorChange: the user edits the document
EditContents == {"t1"}

handleEditorChange ==
    \E c \in EditContents :
        /\ activeFile # Null
        /\ edits < MaxEdits
        /\ edits' = edits + 1
        /\ isDirty' = TRUE
        /\ editorContent' = blocksToMarkdownLossy(c)
        /\ saveTimer' = TRUE
        /\ UNCHANGED <<activeFile, editorVersion, serverActions, chatVars, gateVars,
                       toasts, now, pendingChange, panelVars, hostVars, SessionFrame>>

\* saveToFile up to its await, run by the autosave timer
saveToFile ==
    /\ saveTimer
    /\ saveTimer' = FALSE
    /\ IF activeFile = Null
       THEN UNCHANGED serverActions
       ELSE serverActions' = Append(serverActions,
                    ServerCall("save", activeFile, blocksToMarkdownLossy(editorContent)))
    /\ UNCHANGED <<edits, chatVars, gateVars, toasts, now, storeVars, pendingChange,
                   panelVars, hostVars, SessionFrame>>

\* saveToFile after writeFile
saveToFileResume ==
    /\ HeadIs("save")
    /\ \E fault \in BOOLEAN :
        LET call == Head(serverActions)
            r == writeFile(fs, settingsJson, call.path, call.content, fault)
        IN  /\ fs' = r.fs
            /\ IF r.res.success
               THEN /\ isDirty' = FALSE
                    /\ recentFiles' = addRecentFile(recentFiles, call.path, "save")
               ELSE UNCHANGED <<isDirty, recentFiles>>
    /\ serverActions' = Tail(serverActions)
    /\ UNCHANGED <<activeFile, editorContent, editorVersion, saveTimer, edits,
                   chatVars, gateVars, toasts, now, pendingChange, panelVars,
                   settingsJson, SessionFrame>>

\* handleAccept up to its await
handleAccept ==
    /\ pendingChange # NoChange
    /\ ~isAccepting
    /\ isAccepting' = TRUE
    /\ serverActions' = Append(serverActions,
            ServerCall("accept", pendingChange.filePath, pendingChange.proposedContent))
    /\ UNCHANGED <<alerts, changeOutcome, saveTimer, edits, chatVars, gateVars, toasts,
                   now, storeVars, pendingChange, hostVars, SessionFrame>>

\* none: the action runs; io: its fs.writeFile fails; lost: the call fails
\* before the action runs; noreply: the action runs and the call fails
AcceptFaults == {"none", "io", "lost", "noreply"}

\* an accept handler that drops the PendingChange when the write fails
handleAcceptResume_DropsChange ==
    /\ HeadIs("accept")
    /\ \E fault \in AcceptFaults :
        LET call == Head(serverActions)
            r == acceptProposedChange(fs, settingsJson, call.path, call.content,
                                      fault = "io")
            thrown == fault \in {"lost", "noreply"}
            ok == ~thrown /\ r.res.success
        IN  /\ fs' = IF fault = "lost" THEN fs ELSE r.fs
            /\ IF ok
               THEN /\ editorContent' = call.content
                    /\ isDirty' = FALSE
                    /\ editorVersion' = editorVersion + 1
                    /\ alerts' = alerts
                    /\ changeOutcome' = "accepted"
               ELSE /\ alerts' = (IF thrown THEN "An unexpected error occurred"
                                   ELSE "Failed to save changes")
                    /\ changeOutcome' = (IF thrown THEN "thrown" ELSE "failed")
                    /\ UNCHANGED <<editorContent, isDirty, editorVersion>>
    /\ pendingChange' = NoChange
    /\ isAccepting' = FALSE
    /\ serverActions' = Tail(serverActions)
    /\ UNCHANGED <<activeFile, saveTimer, edits, chatVars, gateVars, toasts, now,
                   settingsJson, recentFiles, SessionFrame>>

\* handleAccept after acceptProposedChange
handleAcceptResume ==
    /\ HeadIs("accept")
    /\ \E fault \in AcceptFaults :
        LET call == Head(serverActions)
            r == acceptProposedChange(fs, settingsJson, call.path, call.content,
                                      fault = "io")
            thrown == fault \in {"lost", "noreply"}
            ok == ~thrown /\ r.res.success
        IN  /\ fs' = IF fault = "lost" THEN fs ELSE r.fs
            /\ IF ok
               THEN /\ editorContent' = call.content
                    /\ isDirty' = FALSE
                    /\ editorVersion' = editorVersion + 1
                    /\ pendingChange' = NoChange
                    /\ alerts' = alerts
                    /\ changeOutcome' = "accepted"
               ELSE /\ alerts' = (IF thrown THEN "An unexpected error occurred"
                                   ELSE "Failed to save changes")
                    /\ changeOutcome' = (IF thrown THEN "thrown" ELSE "failed")
                    /\ UNCHANGED <<editorContent, isDirty, editorVersion, pendingChange>>
    /\ isAccepting' = FALSE
    /\ serverActions' = Tail(serverActions)
    /\ UNCHANGED <<activeFile, saveTimer, edits, chatVars, gateVars, toasts, now,
                   settingsJson, recentFiles, SessionFrame>>

\* a reject handler that puts the content of the proposal's snapshot back
handleReject_ResetsEditor ==
    /\ pendingChange # NoChange
    /\ ~isAccepting
    /\ pendingChange' = NoChange
    /\ changeOutcome' = "rejected"
    /\ editorContent' = pendingChange.originalContent
    /\ isDirty' = FALSE
    /\ UNCHANGED <<activeFile, editorVersion, isAccepting, alerts, queueVars, chatVars,
                   gateVars, toasts, now, hostVars, SessionFrame>>

\* handleReject
handleReject ==
    /\ pendingChange # NoChange
    /\ ~isAccepting
    /\ pendingChange' = NoChange
    /\ changeOutcome' = "rejected"
    /\ UNCHANGED <<isAccepting, alerts, queueVars, chatVars, gateVars, toasts, now,
                   storeVars, hostVars, SessionFrame>>

\* handleSave of the settings modal: a validated directory becomes the root
SettingsRoots == {pD}

handleSave ==
    \E root \in SettingsRoots :
        /\ root # settingsJson.rootDirectory
        /\ settingsJson' = [settingsJson EXCEPT !.rootDirectory = root]
        /\ UNCHANGED <<fs, recentFiles, chatVars, gateVars, toasts, now, storeVars,
                       pendingChange, panelVars, queueVars, SessionFrame>>

\* ------------------------------------------------------------------------
\* SpecProposal: a session in which the agent proposes document changes
\* ------------------------------------------------------------------------
ProposalParts ==
    {createProposeDocumentChangeTool(fs, bodyRoot, p, c, "s1").res :
        p \in {<<>>, pA, pB}, c \in {"c5", "r6"}}

ProposalTurns == {<<>>} \cup {<<a>> : a \in ProposalParts}

ProposalAssistantTurn == AssistantTurn(ProposalTurns, MaxProposals)

ProposalNext ==
    \/ onSubmit
    \/ ProposalAssistantTurn
    \/ handleSelectFile
    \/ handleSelectFileResume
    \/ handleEditorChange
    \/ saveToFile
    \/ saveToFileResume
    \/ handleAccept
    \/ handleAcceptResume
    \/ handleReject
    \/ handleSave

\* C8: when an accept completes successfully for a PendingChange with
\* proposedContent X for path p, then at that moment the file at p holds
\* exactly X, editorContent is X and isDirty is false.
C8_AcceptRoundTrip ==
    [][(handleAcceptResume /\ changeOutcome' = "accepted") =>
          LET call == Head(serverActions)
          IN  /\ isFile(fs', call.path)
              /\ readFs(fs', call.path) = call.content
              /\ editorContent' = call.content
              /\ isDirty' = FALSE]_vars

C8_Witness ==
    /\ changeOutcome = "accepted"
    /\ activeFile = pA
    /\ readFs(fs, pA) = "c5"
    /\ editorContent = "c5"
    /\ ~isDirty
    /\ edits = MaxEdits

\* C37: an editor save of the active file that is in flight during an accept
\* for the same file never leaves the file holding other content than the
\* editor while isDirty is false: when the later of the two completes after
\* a successful accept, the file on disk equals editorContent or isDirty is
\* true.
C37_SaveDuringAcceptKeepsFileAndEditorInStep ==
    [][(/\ (HeadIs("save") \/ HeadIs("accept"))
        /\ Head(serverActions).path = activeFile
        /\ serverActions' = <<>>
        /\ changeOutcome' = "accepted") =>
          \/ isDirty'
          \/ /\ isFile(fs', activeFile')
             /\ readFs(fs', activeFile') = editorContent']_vars

\* C9: when the accept fails (access denied, an I/O error, or the call
\* itself failing), the PendingChange stays as it was, an alert tells the
\* user, editorContent, isDirty and editorVersion are unchanged, and the
\* panel's buttons are enabled again, so that the accept can be retried.
C9_AcceptFailureKeepsChange ==
    [][(handleAcceptResume /\ changeOutcome' \in {"failed", "thrown"}) =>
          /\ pendingChange' = pendingChange
          /\ alerts' \in {"Failed to save changes", "An unexpected error occurred"}
          /\ UNCHANGED <<editorContent, isDirty, editorVersion>>
          /\ isAccepting' = FALSE]_vars

C9_Witness ==
    /\ changeOutcome = "failed"
    /\ settingsJson.rootDirectory = pD
    /\ pendingChange # NoChange
    /\ pendingChange.filePath = pA
    /\ alerts = "Failed to save changes"
    /\ ~isAccepting

\* C10: reject clears the PendingChange and changes nothing else, and staging
\* the proposal changed nothing but the PendingChange either: neither step
\* touches the file tree, editorContent, isDirty or editorVersion.
C10_RejectClearsOnly ==
    [][/\ handleReject =>
            /\ pendingChange' = NoChange
            /\ UNCHANGED <<fs, activeFile, editorContent, isDirty, editorVersion>>
       \* the assistant turn is the one step that advances now
       /\ now' # now =>
            UNCHANGED <<fs, activeFile, editorContent, isDirty, editorVersion>>]_vars

C10_Witness ==
    /\ changeOutcome = "rejected"
    /\ pendingChange = NoChange
    /\ activeFile = pA
    /\ editorContent = "t1"
    /\ isDirty
    /\ readFs(fs, pA) = "c1"
    /\ editorVersion = 0

\* ------------------------------------------------------------------------
\* SpecStaging: a session in which proposals follow one another while the
\* user chooses files and accepts or rejects
\* ------------------------------------------------------------------------
StagingAssistantTurn == AssistantTurn(ProposalTurns, MaxStagings)

StagingNext ==
    \/ onSubmit
    \/ StagingAssistantTurn
    \/ handleSelectFile
    \/ handleSelectFileResume
    \/ handleAccept
    \/ handleAcceptResume
    \/ handleReject

\* the PendingChanges the proposals of an assistant turn ending now can stage
StagedBy(t) ==
    {PendingChange(t, part, activeFile, editorContent) :
        part \in {q \in ProposalParts : q.success}}

\* C11: the store holds one PendingChange slot. An assistant turn leaves the
\* slot as it was, empties it, or puts in it exactly the PendingChange built
\* from one proposal of that turn (replacing what was staged, nothing of the
\* previous PendingChange surviving); every other step leaves the slot as it
\* was or empties it.
C11_ProposalsNeverAccumulate ==
    [][IF StagingAssistantTurn
       THEN pendingChange' \in {pendingChange, NoChange} \cup StagedBy(now')
       ELSE pendingChange' \in {pendingChange, NoChange}]_vars

C11_Witness ==
    /\ changeOutcome = "replaced"
    /\ activeFile = pA
    /\ pendingChange.filePath = pA
    /\ pendingChange.timestamp = 2
    /\ pendingChange.proposedContent = "r6"
    /\ pendingChange.originalContent = "c1"

\* C12: once the active file differs from the path of a PendingChange whose
\* accept is under way (the active file changed while it was staged, and
\* Home discarded it), the completion of that accept writes nothing to disk
\* and leaves the editor content of the newly active file alone.
C12_StaleChangeNotCommitted ==
    [][(handleAcceptResume /\ activeFile # Head(serverActions).path) =>
          UNCHANGED <<fs, editorContent>>]_vars

\* ------------------------------------------------------------------------
\* SpecSandbox: the sandbox checks applied to every drawn (root, path)
\* ------------------------------------------------------------------------
SbRoots == StringsUpTo(MaxRootLen) \ {<<>>}
SbPaths == StringsUpTo(MaxPathLen)

SbInit ==
    /\ sbRoot \in SbRoots
    /\ sbPath \in SbPaths
    /\ sbOut = SbNone

SbValidatePathSecurity ==
    /\ sbOut = SbNone
    /\ sbOut' = [by |-> "validatePathSecurity",
                 valid |-> validatePathSecurity(sbPath, sbRoot).valid]
    /\ UNCHANGED <<sbRoot, sbPath, SbFrame>>

SbValidatePath ==
    /\ sbOut = SbNone
    /\ sbOut' = [by |-> "validatePath", valid |-> validatePath(sbPath, sbRoot)]
    /\ UNCHANGED <<sbRoot, sbPath, SbFrame>>

SbNext == SbValidatePathSecurity \/ SbValidatePath

SbIdle == sbRoot = pRoot /\ sbPath = pRoot /\ sbOut = SbNone

\* C1: the sandbox check accepts P iff resolve(P) is resolve(R) or a
\* path-segment-wise descendant of resolve(R) (root /a must reject /aa/x).
C1_SandboxSoundness ==
    sbOut # SbNone => (sbOut.valid <=> InsideRoot(sbPath, sbRoot))

\* ------------------------------------------------------------------------
\* SpecListing: readDirectory on a root that holds an excluded folder, files
\* of an excluded extension and names that differ in case, while files and
\* folders are created and deleted
\* ------------------------------------------------------------------------
sGit == <<".", "g", "i", "t">>
sM   == <<"M">>
sX   == <<"x">>
sLog == <<"e", ".", "l", "o", "g">>
sC   == <<"c", ".", "m", "d">>

\* /w:   .git/  d/  M/  a.md  e.log  n.md
\* /w/d: .git/  x/  b.md  e.log
ListingTree ==
    LET dirs  == {<<>>, <<sW>>, <<sW, sGit>>, <<sW, sD>>, <<sW, sM>>,
                  <<sW, sD, sGit>>, <<sW, sD, sX>>}
        files == {<<sW, sA>>, <<sW, sLog>>, <<sW, sN>>, <<sW, sGit, sA>>,
                  <<sW, sD, sB>>, <<sW, sD, sLog>>}
    IN  [q \in dirs \cup files |-> IF q \in dirs THEN DirNode ELSE FileOf("c1")]

ListingNames == {sC, sLog, sGit, <<"D">>}
ListingParents == {<<>>, pD}
ListingPaths == {<<>>, pRoot, pD, pA, pN \o <<"/", "x">>, SegsToString(<<sW, sM>>)}
ListingItems == {pA, pD, SegsToString(<<sW, sM>>)}

ListCreateFile ==
    \E p \in ListingParents, n \in ListingNames :
        /\ FsCall(createFile(fs, settingsJson, p, n, "c4", FALSE))
        /\ UNCHANGED <<settingsJson, recentFiles>>

ListCreateFolder ==
    \E p \in ListingParents, n \in ListingNames :
        /\ FsCall(createFolder(fs, settingsJson, p, n, FALSE))
        /\ UNCHANGED <<settingsJson, recentFiles>>

ListDeleteItem ==
    \E p \in ListingItems :
        LET r == deleteItem(fs, settingsJson, recentFiles, p, FALSE, FALSE, FALSE)
        IN  /\ FsCall(r)
            /\ recentFiles' = r.recent
            /\ UNCHANGED settingsJson

ListReadDirectory ==
    \E p \in ListingPaths, fault \in BOOLEAN :
        /\ FsCall(readDirectory(fs, settingsJson, p, fault))
        /\ UNCHANGED <<settingsJson, recentFiles>>

ListingNext ==
    \/ ListCreateFile
    \/ ListCreateFolder
    \/ ListDeleteItem
    \/ ListReadDirectory

\* an entry the settings exclude: a directory by its name, a file by its
\* extension
ExcludedEntry(n, settings) ==
    IF n.type = "directory"
    THEN n.name \in settings.excludedFolders
    ELSE toLowerCase(extname(n.name)) \in settings.excludedExtensions

\* a precedes b in a listing: a directory before a file, and within a group
\* the names in alphabetical order
ListedInOrder(a, b) ==
    /\ ~(a.type = "file" /\ b.type = "directory")
    /\ a.type = b.type => ~LexLess(toLowerCase(b.name), toLowerCase(a.name))

RECURSIVE WellListed(_, _)
WellListed(nodes, settings) ==
    /\ \A i \in 1..Len(nodes) :
          /\ ~ExcludedEntry(nodes[i], settings)
          /\ nodes[i].type = "directory" => WellListed(nodes[i].children, settings)
    /\ \A i, j \in 1..Len(nodes) : i < j => ListedInOrder(nodes[i], nodes[j])

NamesOf(nodes) == [i \in 1..Len(nodes) |-> nodes[i].name]

\* C21: at every level of the tree readDirectory returns only entries the
\* settings do not exclude, all directories before all files and each group
\* in alphabetical order of the names
C21_ListingFilteredAndSorted ==
    (fsLast.op = "readDirectory" /\ fsLast.success) =>
        WellListed(fsLast.nodes, settingsJson)

\* the root was listed while it held .git, e.log and a created folder D:
\* d, D, M, then a.md, n.md; below d: x, then b.md
C21_Witness ==
    /\ fsLast.op = "readDirectory" /\ fsLast.success
    /\ fsLast.targets = {pRoot}
    /\ isDirectory(fs, SegsToString(<<sW, sGit>>))
    /\ isFile(fs, SegsToString(<<sW, sLog>>))
    /\ NamesOf(fsLast.nodes) = <<sD, <<"D">>, sM, sA, sN>>
    /\ NamesOf(fsLast.nodes[1].children) = <<sX, sB>>

\* the path a readDirectory call was made for
ListedPath == CHOOSE t \in fsLast'.targets : TRUE

\* a step that is a call of readDirectory
ReadDirectoryStep == fsOps' = fsOps + 1 /\ fsLast'.op = "readDirectory"

validateDirectory(f, dirPath, fault) ==
    LET resolvedPath == resolve(dirPath)
    IN  IF ~exists(f, resolvedPath)
        THEN [valid |-> FALSE, error |-> "Directory does not exist"]
        ELSE IF ~isDirectory(f, resolvedPath)
        THEN [valid |-> FALSE, error |-> "Path is not a directory"]
        ELSE IF fault
        THEN [valid |-> FALSE, error |-> "Permission denied"]
        ELSE [valid |-> TRUE, error |-> ""]

\* the effect that runs when the modal opens: the local copy is reset
OpenSettings ==
    /\ ~isSettingsModalOpen
    /\ isSettingsModalOpen' = TRUE
    /\ localSettings' = settingsJson
    /\ validationStatus' = "null"
    /\ UNCHANGED <<isValidating, isSaving, validated, dirEdits, serverActions,
                   settingsJson, ModalFrame>>

\* handleCancel
handleCancel ==
    /\ isSettingsModalOpen
    /\ localSettings' = settingsJson
    /\ isSettingsModalOpen' = FALSE
    /\ UNCHANGED <<validationStatus, isValidating, isSaving, validated, dirEdits,
                   serverActions, settingsJson, ModalFrame>>

\* what the user types into the directory field
ModalDirs == {<<>>, pD, pA, pN}

\* handleDirectoryChange(dir) up to its await
handleDirectoryChange ==
    \E dir \in ModalDirs :
        /\ isSettingsModalOpen
        /\ dirEdits < MaxDirEdits
        /\ dirEdits' = dirEdits + 1
        /\ localSettings' = [localSettings EXCEPT !.rootDirectory = dir]
        /\ IF trim(dir) # <<>>
           THEN /\ isValidating' = TRUE
                /\ serverActions' =
                      Append(serverActions, ServerCall("validateDirectory", dir, NoData))
                /\ UNCHANGED validationStatus
           ELSE /\ validationStatus' = "null"
                /\ UNCHANGED <<isValidating, serverActions>>
        /\ UNCHANGED <<isSettingsModalOpen, isSaving, validated, settingsJson,
                       ModalFrame>>

\* handleDirectoryChange after validateDirectory has answered
handleDirectoryChangeResume ==
    /\ HeadIs("validateDirectory")
    /\ \E fault \in BOOLEAN :
          LET dir == Head(serverActions).path
              result == validateDirectory(fs, dir, fault)
          IN  /\ validationStatus' = IF result.valid THEN "valid" ELSE "invalid"
              /\ validated' = IF result.valid THEN validated \cup {dir} ELSE validated
    /\ isValidating' = FALSE
    /\ serverActions' = Tail(serverActions)
    /\ UNCHANGED <<isSettingsModalOpen, localSettings, isSaving, dirEdits,
                   settingsJson, ModalFrame>>

\* handleSave of the modal up to its await: the Save button is disabled
\* while isSaving and while validationStatus.valid === false
SettingsModal_handleSave ==
    /\ isSettingsModalOpen
    /\ ~isSaving
    /\ validationStatus # "invalid"
    /\ isSaving' = TRUE
    /\ serverActions' =
          Append(serverActions,
                 ServerCall("writeSettings", localSettings.rootDirectory, NoData))
    /\ UNCHANGED <<isSettingsModalOpen, localSettings, validationStatus,
                   isValidating, validated, dirEdits, settingsJson, ModalFrame>>

\* handleSave after writeSettings has answered; fault: fs.writeFile fails
SettingsModal_handleSaveResume ==
    /\ HeadIs("writeSettings")
    /\ \E fault \in BOOLEAN :
          IF fault
          THEN UNCHANGED <<settingsJson, isSettingsModalOpen>>
          ELSE /\ settingsJson' =
                     [settingsJson EXCEPT !.rootDirectory = Head(serverActions).path]
               /\ isSettingsModalOpen' = FALSE
    /\ isSaving' = FALSE
    /\ serverActions' = Tail(serverActions)
    /\ UNCHANGED <<localSettings, validationStatus, isValidating, validated,
                   dirEdits, ModalFrame>>

\* ------------------------------------------------------------------------
\* SpecSettings: the user edits the directory field and saves
\* ------------------------------------------------------------------------
SettingsNext ==
    \/ OpenSettings
    \/ handleCancel
    \/ handleDirectoryChange
    \/ handleDirectoryChangeResume
    \/ SettingsModal_handleSave
    \/ SettingsModal_handleSaveResume

\* C24: the settings document is written with a new rootDirectory only when
\* a validation of that directory has answered valid (the empty value, which
\* readSettings replaces by the default folder, set aside).
C24_RootOnlyFromValidatedUpdate ==
    [][(/\ settingsJson'.rootDirectory # settingsJson.rootDirectory
        /\ settingsJson'.rootDirectory # <<>>) =>
          settingsJson'.rootDirectory \in validated]_vars

\* ------------------------------------------------------------------------
\* The recent-files list (recent-files-actions.ts)
\* ------------------------------------------------------------------------
\* clearRecentFiles(): the empty list is written
clearRecentFiles == <<>>

\* the validFiles of getValidRecentFiles(): the entries fs.access finds
getValidRecentFiles(f, recent) == SelectSeq(recent, LAMBDA e : exists(f, e.path))

\* ------------------------------------------------------------------------
\* SpecRecent: any sequence of recent-files calls, from an empty list, a
\* short list or a list that is full
\* ------------------------------------------------------------------------
\* /w/o, /w/oo, ...: files that were opened and no longer exist
GonePath(k) == pRoot \o <<"/">> \o [i \in 1..k |-> "o"]

\* a full list: /w/d/b.md first, 18 files that are gone, /w/a.md last
FullRecent ==
    [i \in 1..MAX_RECENT_FILES |->
        [path |-> IF i = 1 THEN pB
                  ELSE IF i = MAX_RECENT_FILES THEN pA ELSE GonePath(i - 1),
         action |-> "open"]]

RecentStarts == {<<>>, <<[path |-> pA, action |-> "open"]>>, FullRecent}
RecentArgs == {pA, pB, pN, GonePath(1)}

RecentStart ==
    /\ fs = HostTree
    /\ settingsJson = HostSettings
    /\ recentFiles \in RecentStarts

\* one call: the list written (or left, when the write fails) and how the
\* call ended
RecentCall(op, p, written, success, thrown) ==
    /\ recentOps < MaxRecentOps
    /\ recentOps' = recentOps + 1
    /\ recentFiles' = written
    /\ recentLast' = [op |-> op, path |-> p, success |-> success, thrown |-> thrown]
    /\ UNCHANGED RecentFrame

\* fault: fs.writeFile of recent_files.json fails
RecentAddRecentFile ==
    \E p \in RecentArgs, action \in {"open", "save"}, fault \in BOOLEAN :
        /\ RecentCall("addRecentFile", p,
                      IF fault THEN recentFiles ELSE addRecentFile(recentFiles, p, action),
                      ~fault, FALSE)
        /\ addOrder' = IF fault THEN addOrder
                       ELSE <<p>> \o SelectSeq(addOrder, LAMBDA q : q # p)

RecentRemoveRecentFile ==
    \E p \in RecentArgs, fault \in BOOLEAN :
        /\ RecentCall("removeRecentFile", p,
                      IF fault THEN recentFiles ELSE removeRecentFile(recentFiles, p),
                      ~fault, FALSE)
        /\ UNCHANGED addOrder

RecentClearRecentFiles ==
    \E fault \in BOOLEAN :
        /\ RecentCall("clearRecentFiles", <<>>,
                      IF fault THEN recentFiles ELSE clearRecentFiles, ~fault, FALSE)
        /\ UNCHANGED addOrder

\* getValidRecentFiles writes only when an entry was dropped, outside any
\* try block: a failing write is thrown
RecentGetValidRecentFiles ==
    \E fault \in BOOLEAN :
        LET validFiles == getValidRecentFiles(fs, recentFiles)
            writes == Len(validFiles) # Len(recentFiles)
        IN  /\ RecentCall("getValidRecentFiles", <<>>,
                          IF writes /\ fault THEN recentFiles ELSE validFiles,
                          ~(writes /\ fault), writes /\ fault)
            /\ UNCHANGED addOrder

RecentNext ==
    \/ RecentAddRecentFile
    \/ RecentRemoveRecentFile
    \/ RecentClearRecentFiles
    \/ RecentGetValidRecentFiles

\* s holds elements of t, in the order they have in t
RECURSIVE IsSubsequence(_, _)
IsSubsequence(s, t) ==
    IF s = <<>> THEN TRUE
    ELSE IF t = <<>> THEN FALSE
    ELSE IF Head(s) = Head(t) THEN IsSubsequence(Tail(s), Tail(t))
    ELSE IsSubsequence(s, Tail(t))

\* C25: after any sequence of calls the stored list has at most 20 entries,
\* holds each path once and is ordered most recently added first; a completed
\* addRecentFile(p) leaves p as the first entry, and a completed
\* getValidRecentFiles leaves exactly the entries whose file exists, in the
\* order they had.
C25_RecentListWellFormed ==
    /\ [](/\ Len(recentFiles) <= MAX_RECENT_FILES
          /\ \A i, j \in 1..Len(recentFiles) :
                recentFiles[i].path = recentFiles[j].path => i = j
          /\ IsSubsequence(PathsOf(recentFiles), addOrder)
          /\ (recentLast.op = "addRecentFile" /\ recentLast.success) =>
                /\ recentFiles # <<>>
                /\ recentFiles[1].path = recentLast.path
          /\ (recentLast.op = "getValidRecentFiles" /\ recentLast.success) =>
                \A i \in 1..Len(recentFiles) : exists(fs, recentFiles[i].path))
    /\ [][(RecentGetValidRecentFiles /\ recentLast'.success) =>
             /\ IsSubsequence(recentFiles', recentFiles)
             /\ \A i \in 1..Len(recentFiles) :
                   exists(fs, recentFiles[i].path) =>
                      \E j \in 1..Len(recentFiles') : recentFiles'[j] = recentFiles[i]]_vars

\* /w/n.md was added to the full list, which dropped its last entry /w/a.md,
\* and getValidRecentFiles then left /w/d/b.md alone
C25_Witness ==
    /\ recentLast.op = "getValidRecentFiles" /\ recentLast.success
    /\ recentOps = 2
    /\ Len(addOrder) = MAX_RECENT_FILES + 1 /\ addOrder[1] = pN
    /\ PathsOf(recentFiles) = <<pB>>

\* ------------------------------------------------------------------------
\* SpecQueue: a chat session in which assistant messages carry up to two
\* gated tool calls, with the tool parts of the finished message kept
\* ------------------------------------------------------------------------
QueueParts ==
    {createReadMarkdownFileTool(fs, bodyRoot, pA, "r1").res,
     createSearchMarkdownFilesTool(fs, bodyRoot, Undefined, "r2").res}

QueueTurns ==
    {<<>>} \cup {<<a>> : a \in QueueParts} \cup {<<a, b>> : a, b \in QueueParts}

QueueAssistantTurn ==
    \E parts \in QueueTurns :
        /\ AssistantTurnOf(parts, MaxTurns)
        /\ lastParts' = parts

QueueNext ==
    \/ onSubmit
    \/ QueueAssistantTurn
    \/ handlePermissionApprove
    \/ handlePermissionApproveResume
    \/ handlePermissionDeny

\* C26: permission requests are serialized and none is lost. A request that
\* is pending leaves the slot only by being cleared when its own resolution
\* (approve or deny) completes, never by a new request taking its place; and
\* every permission request of a finished assistant message is the one put
\* before the user.
C26_RequestsSerializedNoneLost ==
    [][/\ (pendingPermission # NoPermission /\ pendingPermission' # pendingPermission) =>
             /\ pendingPermission' = NoPermission
             /\ Len(resolutions') = Len(resolutions) + 1
             /\ resolutions'[Len(resolutions')].id = pendingPermission.id
       /\ QueueAssistantTurn =>
             \A i \in 1..Len(lastParts') :
                lastParts'[i].requiresPermission =>
                   pendingPermission'.parameters = lastParts'[i].permissionRequest]_vars

\* ------------------------------------------------------------------------
\* SpecContent: a chat session on /w/a.md, which is open in the editor and
\* which the user edits
\* ------------------------------------------------------------------------
ContentStore ==
    /\ activeFile = pA
    /\ editorContent = readFs(HostTree, pA)
    /\ isDirty = FALSE
    /\ editorVersion = 0
    /\ pendingChange = NoChange
    /\ isAccepting = FALSE
    /\ alerts = ""
    /\ changeOutcome = "none"
    /\ serverActions = <<>>
    /\ saveTimer = FALSE
    /\ edits = 0

ContentParts ==
    {createReadMarkdownFileTool(fs, bodyRoot, pB, "r1").res,
     createProposeDocumentChangeTool(fs, bodyRoot, pA, "c5", "s1").res}

ContentTurns == {<<>>} \cup {<<a>> : a \in ContentParts}

ContentAssistantTurn == AssistantTurn(ContentTurns, MaxContentTurns)

ContentNext ==
    \/ handleEditorChange
    \/ onSubmit
    \/ ContentAssistantTurn
    \/ handlePermissionApprove
    \/ handlePermissionApproveResume
    \/ handlePermissionDeny

\* C27: the fileContent sent with a user submit, an approve-resume and a
\* deny-resume, and the originalContent of a proposal that is staged, are the
\* value the editorContent slot holds at that moment.
C27_ContentReadAtMomentOfUse ==
    [][/\ messages' # messages => bodyContent' = editorContent
       /\ (pendingChange' # pendingChange /\ pendingChange' # NoChange) =>
             pendingChange'.originalContent = editorContent]_vars

\* the user sent a message while /w/a.md was unchanged, approved the read
\* the agent asked for and edited the document before the endpoint answered:
\* the approve-resume has sent the tool result with the edited content
C27_Witness ==
    /\ activeFile = pA /\ isDirty
    /\ editorContent # readFs(fs, pA)
    /\ edits = 1
    /\ Len(messages) = 2 /\ messages[2].kind = "result"
    /\ Len(execCalls) = 1
    /\ bodyContent = editorContent

\* ------------------------------------------------------------------------
\* The conversation endpoint: forced tool use and the agent's step loop
\* ------------------------------------------------------------------------
\* "save", "update", "rewrite", ... "restructure"
EDIT_KEYWORDS ==
    {<<"s", "a", "v", "e">>,
     <<"u", "p", "d", "a", "t", "e">>,
     <<"r", "e", "w", "r", "i", "t", "e">>,
     <<"e", "d", "i", "t">>,
     <<"c", "h", "a", "n", "g", "e">>,
     <<"m", "o", "d", "i", "f", "y">>,
     <<"a", "d", "d">>,
     <<"r", "e", "m", "o", "v", "e">>,
     <<"d", "e", "l", "e", "t", "e">>,
     <<"i", "n", "s", "e", "r", "t">>,
     <<"a", "p", "p", "e", "n", "d">>,
     <<"p", "r", "e", "p", "e", "n", "d">>,
     <<"r", "e", "p", "l", "a", "c", "e">>,
     <<"r", "e", "f", "a", "c", "t", "o", "r">>,
     <<"f", "i", "x">>,
     <<"i", "m", "p", "r", "o", "v", "e">>,
     <<"o", "p", "t", "i", "m", "i", "z", "e">>,
     <<"s", "u", "m", "m", "a", "r", "i", "z", "e", " ", "i", "n", "t", "o">>,
     <<"w", "r", "i", "t", "e", " ", "t", "o">>,
     <<"p", "u", "t", " ", "i", "n">>,
     <<"g", "e", "n", "e", "r", "a", "t", "e">>,
     <<"c", "r", "e", "a", "t", "e">>,
     <<"m", "a", "k", "e">>,
     <<"t", "r", "a", "n", "s", "f", "o", "r", "m">>,
     <<"c", "o", "n", "v", "e", "r", "t">>,
     <<"f", "o", "r", "m", "a", "t">>,
     <<"r", "e", "s", "t", "r", "u", "c", "t", "u", "r", "e">>}

\* shouldForceToolUse(message)
shouldForceToolUse(message) ==
    LET lowerMessage == toLowerCase(message)
    IN  \E keyword \in EDIT_KEYWORDS : includes(lowerMessage, keyword)

\* a message of a request: a UIMessage, as the chat panel's transport sends
\* it, keeps its text in parts and has no content field; a message with a
\* content string is what other callers of the endpoint may send
ChatMessage(role, content, parts) == [role |-> role, content |-> content, parts |-> parts]

UIMessage(role, text) == ChatMessage(role, Undefined, text)

\* the text of a message, wherever it is kept
MessageText(m) == IF m.parts # Undefined THEN m.parts ELSE m.content

\* index of the last message of the user, 0 when there is none
LastUser(msgs) ==
    LET users == {i \in 1..Len(msgs) : msgs[i].role = "user"}
    IN  IF users = {} THEN 0 ELSE CHOOSE i \in users : \A j \in users : j <= i

\* POST: messages.filter(m => m.role === "user").pop()?.content || "", and
\* shouldForceToolUse of it
forceToolUse(msgs) ==
    LET lastMessageContent ==
            IF LastUser(msgs) = 0 \/ Falsy(msgs[LastUser(msgs)].content) THEN <<>>
            ELSE msgs[LastUser(msgs)].content
    IN  shouldForceToolUse(lastMessageContent)

\* a stopWhen that lets the loop make a sixth step
stopWhen_AfterSix(steps) == Len(steps) > StepCap

\* stopWhen: stepCountIs(5)
stopWhen(steps) == Len(steps) = StepCap

\* the loop of ToolLoopAgent is over: the last step made no tool call (a
\* text, or the provider failed), or stopWhen holds of the steps made
AgentDone ==
    /\ agentSteps # <<>>
    /\ \/ agentSteps[Len(agentSteps)] # "toolCalls"
       \/ stopWhen(agentSteps)

AgentRunning == chatResponse = 200 /\ ~AgentDone

\* what a step of the model can produce: with toolChoice "required" the
\* provider answers with a tool call, never with text alone
StepOutcomes(choice) ==
    IF choice = "required" THEN {"toolCalls", "error"}
    ELSE {"toolCalls", "text", "error"}

AgentFrame == <<sbVars, hostVars, fsVars, toolVars, postVars, modelVars, sessionVars,
                modalVars, recentVars, lastParts, denials, pc>>

\* POST /api/chat: the model is validated, forceToolUse is computed from the
\* messages and the agent is created with toolChoice and stopWhen
AgentPOST(msgs, bodyModel) ==
    /\ chatResponse = 0
    /\ chatRequest' = msgs
    /\ chatResponse' = ChatPOST(bodyModel).status
    /\ toolChoice' = IF chatResponse' # 200 THEN "none"
                     ELSE IF forceToolUse(msgs) THEN "required" ELSE "auto"
    /\ UNCHANGED <<agentSteps, AgentFrame>>

\* one step of the agent: the model answers, tools it called are executed
AgentStep ==
    /\ AgentRunning
    /\ \E out \in StepOutcomes(toolChoice) : agentSteps' = Append(agentSteps, out)
    /\ UNCHANGED <<chatRequest, chatResponse, toolChoice, AgentFrame>>

\* ------------------------------------------------------------------------
\* SpecAgent: one request to the conversation endpoint and its tool-use loop
\* ------------------------------------------------------------------------
TextChar == {"a", "d", "D"}

ChatTexts == UNION {[1..k -> TextChar] : k \in 0..MaxTextLen}

\* the message of the user that ends a request, in either shape
UserMessages ==
    {UIMessage("user", t) : t \in ChatTexts}
    \cup {ChatMessage("user", t, Undefined) : t \in ChatTexts}

\* messages of the user earlier in a conversation
PriorMessages ==
    {UIMessage("user", t) : t \in {<<"a", "d", "d">>, <<"a">>}}
    \cup {ChatMessage("user", t, Undefined) : t \in {<<"a", "d", "d">>, <<"a">>}}

AssistantMessage == UIMessage("assistant", <<"a", "d", "d">>)

ChatRequests ==
    {<<>>}
    \cup {<<u>> : u \in UserMessages}
    \cup {<<u, AssistantMessage>> : u \in UserMessages}
    \cup {<<p, AssistantMessage, u>> : p \in PriorMessages, u \in UserMessages}

AgentModels == {NoModel, "bogus"}

AgentChatPOST == \E msgs \in ChatRequests, m \in AgentModels : AgentPOST(msgs, m)

AgentNext ==
    \/ AgentChatPOST
    \/ AgentStep

\* C28 (as stated): the agent of a request is built with toolChoice
\* "required" exactly when the text of the latest message of the user
\* contains a keyword of the edit vocabulary, and with "auto" otherwise.
C28_ToolChoiceFollowsLatestUserText ==
    chatResponse = 200 =>
        toolChoice =
            IF /\ LastUser(chatRequest) # 0
               /\ shouldForceToolUse(MessageText(chatRequest[LastUser(chatRequest)]))
            THEN "required" ELSE "auto"

\* C29: the loop of a request makes at most five steps, every step but the
\* last made a tool call, and the loop of every accepted request ends, with
\* toolChoice "required" as with "auto".
C29_LoopEndsWithinStepCap ==
    /\ [](/\ Len(agentSteps) <= StepCap
          /\ \A i \in 1..(Len(agentSteps) - 1) : agentSteps[i] = "toolCalls")
    /\ (chatResponse = 200) ~> AgentDone

\* a request whose tool choice is forced has made five steps of tool calls
\* and its loop is over
C29_Witness ==
    /\ toolChoice = "required"
    /\ Len(agentSteps) = StepCap
    /\ \A i \in 1..StepCap : agentSteps[i] = "toolCalls"
    /\ AgentDone

\* ------------------------------------------------------------------------
\* The error text of a sandbox violation
\* ------------------------------------------------------------------------
\* an error text: the fixed words of its template and, in order, the values
\* the template embeds
ErrorText(template, args) == [template |-> template, args |-> args]

\* proposeDocumentChange:
\* `Access denied: Path '${targetPath}' is outside the allowed directory '${rootDirectory}'`
proposeAccessDenied(targetPath, rootDirectory) ==
    ErrorText("Access denied: Path '$1' is outside the allowed directory '$2'",
              <<targetPath, rootDirectory>>)

\* readMarkdownFile:
\* `Access denied: Path '${filePath}' is outside the allowed directory`
readAccessDenied(filePath) ==
    ErrorText("Access denied: Path '$1' is outside the allowed directory", <<filePath>>)

\* the file store: readFile throws "Access denied: File is outside the
\* allowed directory", createFile and deleteItem return "Access denied: Path
\* is outside the allowed directory"
fileStoreAccessDenied(op) ==
    ErrorText(IF op = "readFile"
              THEN "Access denied: File is outside the allowed directory"
              ELSE "Access denied: Path is outside the allowed directory", <<>>)

\* a rejected call: who rejected it, the path as the caller supplied it, the
\* root directory it was checked against and the error text returned
Denial(by, supplied, root, text) ==
    [by |-> by, supplied |-> supplied, root |-> root, text |-> text]

Deny(d) ==
    /\ Len(denials) < MaxDenials
    /\ denials' = Append(denials, d)
    /\ UNCHANGED <<sbVars, hostVars, fsVars, toolVars, postVars, modelVars, sessionVars,
                   modalVars, recentVars, lastParts, agentVars, pc>>

\* ------------------------------------------------------------------------
\* SpecDenied: calls of the agent tools and of the file store with targets
\* outside the root directory
\* ------------------------------------------------------------------------
\* "w" is relative: it resolves to /a/w
DenyRoots == {pRoot, pWX, sW}
DenyPaths == {pRoot, pA, pS, pUp, sW \o <<"/">> \o sA}

DeniedProposeDocumentChange ==
    \E root \in DenyRoots, p \in DenyPaths :
        /\ createProposeDocumentChangeTool(fs, root, p, "c5", "s1").res.error
              = "AccessDenied"
        /\ Deny(Denial("proposeDocumentChange", p, root, proposeAccessDenied(p, root)))

DeniedReadMarkdownFile ==
    \E root \in DenyRoots, p \in DenyPaths :
        /\ createReadMarkdownFileTool(fs, root, p, "r1").res.error = "AccessDenied"
        /\ Deny(Denial("readMarkdownFile", p, root, readAccessDenied(p)))

DeniedReadFile ==
    \E p \in DenyPaths :
        /\ readFile(fs, settingsJson, p, FALSE).res.error = "AccessDenied"
        /\ Deny(Denial("readFile", p, settingsJson.rootDirectory,
                       fileStoreAccessDenied("readFile")))

DeniedCreateFile ==
    \E p \in {pWX, pRoot}, n \in {sS, <<".", ".", "/", "o">>} :
        /\ createFile(fs, settingsJson, p, n, "c4", FALSE).res.error = "AccessDenied"
        /\ Deny(Denial("createFile", join(p, n), settingsJson.rootDirectory,
                       fileStoreAccessDenied("createFile")))

DeniedDeleteItem ==
    \E p \in DenyPaths :
        /\ deleteItem(fs, settingsJson, recentFiles, p, TRUE, TRUE, FALSE).res.error
              = "AccessDenied"
        /\ Deny(Denial("deleteItem", p, settingsJson.rootDirectory,
                       fileStoreAccessDenied("deleteItem")))

DeniedNext ==
    \/ DeniedProposeDocumentChange
    \/ DeniedReadMarkdownFile
    \/ DeniedReadFile
    \/ DeniedCreateFile
    \/ DeniedDeleteItem

\* C30 (as stated): the error text of a rejected call embeds nothing but the
\* path as the caller supplied it, so it does not show the resolved path of
\* the target unless the caller wrote it, and two calls of one operation
\* rejected for the same supplied string return the same text.
C30_DenialTextShowsSuppliedPathOnly ==
    /\ \A i \in 1..Len(denials) :
          \A k \in 1..Len(denials[i].text.args) :
             denials[i].text.args[k] = denials[i].supplied
    /\ \A i, j \in 1..Len(denials) :
          (denials[i].by = denials[j].by /\ denials[i].supplied = denials[j].supplied)
             => denials[i].text = denials[j].text

\* ------------------------------------------------------------------------
\* handleAccept, statement by statement
\* ------------------------------------------------------------------------
\* handleAccept when acceptProposedChange has answered: on success the
\* handler goes on to its four store updates, otherwise it alerts the user
AcceptAwaitReturns ==
    /\ pc = PcIdle
    /\ HeadIs("accept")
    /\ \E fault \in AcceptFaults :
        LET call == Head(serverActions)
            r == acceptProposedChange(fs, settingsJson, call.path, call.content,
                                      fault = "io")
            thrown == fault \in {"lost", "noreply"}
            ok == ~thrown /\ r.res.success
        IN  /\ fs' = IF fault = "lost" THEN fs ELSE r.fs
            /\ pc' = [PcIdle EXCEPT !.handler = "handleAccept",
                                     !.at = IF ok THEN 1 ELSE 5,
                                     !.path = call.path,
                                     !.content = call.content,
                                     !.version = editorVersion]
            /\ alerts' = IF ok THEN alerts
                         ELSE IF thrown THEN "An unexpected error occurred"
                         ELSE "Failed to save changes"
            /\ changeOutcome' = IF ok THEN changeOutcome
                                ELSE IF thrown THEN "thrown" ELSE "failed"
    /\ serverActions' = Tail(serverActions)
    /\ UNCHANGED <<isAccepting, storeVars, pendingChange, saveTimer, edits, chatVars,
                   gateVars, toasts, now, settingsJson, recentFiles,
                   sbVars, fsVars, toolVars, postVars, modelVars,
                   modalVars, recentVars, lastParts, agentVars, denials>>

\* a handler that clears the PendingChange first and updates the editor after
AcceptStatement_ClearsFirst(k) ==
    /\ editorContent' = IF k = 2 THEN pc.content ELSE editorContent
    /\ isDirty' = IF k = 3 THEN FALSE ELSE isDirty
    /\ editorVersion' = IF k = 4 THEN editorVersion + 1 ELSE editorVersion
    /\ pendingChange' = IF k = 1 THEN NoChange ELSE pendingChange
    /\ changeOutcome' = IF k = 1 THEN "accepted" ELSE changeOutcome

\* the k-th statement after a successful write: 1 setEditorContent(newContent),
\* 2 setIsDirty(false), 3 incrementEditorVersion(), 4 clearPendingChange()
AcceptStatement(k) ==
    /\ editorContent' = IF k = 1 THEN pc.content ELSE editorContent
    /\ isDirty' = IF k = 2 THEN FALSE ELSE isDirty
    /\ editorVersion' = IF k = 3 THEN editorVersion + 1 ELSE editorVersion
    /\ pendingChange' = IF k = 4 THEN NoChange ELSE pendingChange
    /\ changeOutcome' = IF k = 4 THEN "accepted" ELSE changeOutcome

AcceptFrame == <<activeFile, alerts, queueVars, chatVars, gateVars, toasts, now,
                 hostVars, sbVars, fsVars, toolVars, postVars, modelVars,
                 modalVars, recentVars, lastParts, agentVars, denials>>

\* the handler runs its next store update
AcceptStep ==
    /\ pc.handler = "handleAccept"
    /\ pc.at \in 1..4
    /\ AcceptStatement(pc.at)
    /\ pc' = [pc EXCEPT !.at = @ + 1]
    /\ UNCHANGED <<isAccepting, AcceptFrame>>

\* finally: setIsAccepting(false)
AcceptFinally ==
    /\ pc.handler = "handleAccept"
    /\ pc.at = 5
    /\ isAccepting' = FALSE
    /\ pc' = PcIdle
    /\ UNCHANGED <<storeVars, pendingChange, changeOutcome, AcceptFrame>>

\* ------------------------------------------------------------------------
\* SpecAccept: a proposal for /w/a.md is staged, the user edits and accepts;
\* the statements of handleAccept after its await run one by one, and no
\* other handler runs between them
\* ------------------------------------------------------------------------
AcceptTurns == {<<createProposeDocumentChangeTool(fs, bodyRoot, pA, "c5", "s1").res>>}

AcceptAssistantTurn == AssistantTurn(AcceptTurns, MaxContentTurns)

AcceptNext ==
    \/ pc = PcIdle /\ handleEditorChange
    \/ pc = PcIdle /\ onSubmit
    \/ pc = PcIdle /\ AcceptAssistantTurn
    \/ pc = PcIdle /\ handleAccept
    \/ pc = PcIdle /\ handleReject
    \/ AcceptAwaitReturns
    \/ AcceptStep
    \/ AcceptFinally

PcFrame == <<sbVars, fsVars, toolVars, postVars, modelVars, modalVars, recentVars,
             lastParts, agentVars, denials>>

\* handlePermissionDeny is called: pendingPermission is not null
DenyBegins ==
    /\ pc = PcIdle
    /\ pendingPermission # NoPermission
    /\ pc' = [PcIdle EXCEPT !.handler = "handlePermissionDeny", !.at = 1,
                            !.content = "denied", !.request = pendingPermission]
    /\ UNCHANGED <<sessionVars, hostVars, PcFrame>>

\* handlePermissionApprove when the endpoint has answered or the fetch failed
ApproveAwaitReturns ==
    /\ pc = PcIdle
    /\ \E i \in 1..Len(approving), fault \in ExecFaults :
        LET h == approving[i]
            result == executeTool(fs, h.request.toolName, h.request.parameters,
                                  h.rootDirectory, fault = "io")
        IN  /\ approving' = RemoveAt(approving, i)
            /\ pc' = [PcIdle EXCEPT
                        !.handler = "handlePermissionApprove", !.at = 1,
                        !.content = IF fault = "network" THEN "threw"
                                    ELSE IF result.success THEN "success" ELSE "failed",
                        !.request = h.request,
                        !.data = [content |-> result.content, files |-> result.files]]
    /\ UNCHANGED <<pendingPermission, execCalls, resolutions, chatVars, toasts, now,
                   storeVars, pendingChange, panelVars, queueVars, hostVars, PcFrame>>

\* the k-th statement of either handler: 1 addToast, 2 sendMessage with the
\* outcome (approve: only when the tool succeeded), 3 setPendingPermission(null)
ResumeStatement(k) ==
    /\ toasts' = IF k # 1 THEN toasts
                 ELSE IF pc.content = "denied" THEN "Permission Denied"
                 ELSE IF pc.content = "success" THEN "Tool Executed"
                 ELSE IF pc.content = "threw" THEN "Execution Error" ELSE "Tool Failed"
    /\ IF k = 2 /\ pc.content \in {"denied", "success"}
       THEN sendMessage(Message(IF pc.content = "denied" THEN "denial" ELSE "result",
                                pc.request.toolName, pc.request.id, pc.data))
       ELSE UNCHANGED chatVars
    /\ pendingPermission' = IF k = 3 THEN NoPermission ELSE pendingPermission
    /\ resolutions' = IF k = 3
                      THEN Append(resolutions,
                                  [id |-> pc.request.id, outcome |-> pc.content])
                      ELSE resolutions

ResumeStep ==
    /\ pc.handler \in {"handlePermissionDeny", "handlePermissionApprove"}
    /\ ResumeStatement(pc.at)
    /\ pc' = IF pc.at = 3 THEN PcIdle ELSE [pc EXCEPT !.at = @ + 1]
    /\ UNCHANGED <<approving, execCalls, now, storeVars, pendingChange, panelVars,
                   queueVars, hostVars, PcFrame>>

\* ------------------------------------------------------------------------
\* SpecResume: permission requests are approved and denied; the statements of
\* the two handlers run one by one, and no other handler runs between them
\* ------------------------------------------------------------------------
ResumeTurns ==
    {<<>>, <<createReadMarkdownFileTool(fs, bodyRoot, pA, "r1").res>>,
     <<createSearchMarkdownFilesTool(fs, bodyRoot, Undefined, "r2").res>>}

ResumeAssistantTurn == AssistantTurn(ResumeTurns, MaxTurns)

ResumeNext ==
    \/ pc = PcIdle /\ onSubmit
    \/ pc = PcIdle /\ ResumeAssistantTurn
    \/ pc = PcIdle /\ handlePermissionApprove
    \/ ApproveAwaitReturns
    \/ DenyBegins
    \/ ResumeStep

\* the conversation is being resumed with the outcome of the request rq
ResumeInFlight(rq) ==
    /\ chatStatus = "submitted"
    /\ messages # <<>>
    /\ messages[Len(messages)].kind \in {"result", "denial"}
    /\ messages[Len(messages)].requestId = rq.id

\* C33 (as stated): the pending slot is cleared before the outcome message is
\* sent: in no state is a permission request in the slot while the
\* conversation is being resumed with its outcome.
C33_SlotClearedBeforeResume ==
    pendingPermission # NoPermission => ~ResumeInFlight(pendingPermission)

\* ------------------------------------------------------------------------
\* Assistant turns of several steps: more than one proposal in a message
\* ------------------------------------------------------------------------
\* the results of proposeDocumentChange one step of the agent can add
StepParts ==
    {createProposeDocumentChangeTool(fs, bodyRoot, p, c, "s1").res :
        p \in {<<>>, pA}, c \in {"c5", "c6"}}

StepTurns ==
    {<<>>} \cup {<<a>> : a \in StepParts} \cup {<<a, b>> : a, b \in StepParts}

StepsAssistantTurn ==
    \E parts \in StepTurns :
        /\ AssistantTurnOf(parts, MaxTurns)
        /\ lastParts' = parts

StepsNext ==
    \/ onSubmit
    \/ StepsAssistantTurn
    \/ handleReject

\* the successful proposals of a message, by position
SuccessfulProposals(parts) ==
    {i \in 1..Len(parts) :
        parts[i].tool = "proposeDocumentChange" /\ parts[i].success}

LastOf(S) == CHOOSE i \in S : \A j \in S : j <= i

\* C36: when a finished assistant turn holds at least one successful
\* proposeDocumentChange result, the PendingChange staged is the one built
\* from the last successful proposal of that turn; an earlier failed or
\* superseded proposal of the same turn neither prevents nor replaces it.
C36_LastSuccessfulProposalIsStaged ==
    [][(now' # now /\ SuccessfulProposals(lastParts') # {}) =>
          LET part == lastParts'[LastOf(SuccessfulProposals(lastParts'))]
          IN  pendingChange' =
                  HomeEffect(activeFile,
                             PendingChange(now', part, activeFile, editorContent))]_vars

\* ------------------------------------------------------------------------
\* The file tree renames or moves the file that is open in the editor
\* ------------------------------------------------------------------------
TreeNodes == {pA, pB, pD}
RenameValues == {sA, sN, <<" ">>}

\* FileTreeItem.handleRenameSubmit: an empty or unchanged name closes the
\* input; otherwise renameItem runs and the tree is refreshed
handleRenameSubmit ==
    \E node \in {p \in TreeNodes : exists(fs, p)}, renameValue \in RenameValues,
       fault \in BOOLEAN :
        /\ ~(trim(renameValue) = <<>> \/ renameValue = basename(node))
        /\ FsCall(renameItem(fs, settingsJson, node, trim(renameValue), fault))
        /\ UNCHANGED <<settingsJson, recentFiles>>

\* FileTree.handleDragEnd: a node dropped on a directory is moved into it
handleDragEnd ==
    \E sourceNode, targetNode \in {p \in TreeNodes : exists(fs, p)}, fault \in BOOLEAN :
        /\ sourceNode # targetNode
        /\ isDirectory(fs, targetNode)
        /\ ~startsWith(targetNode, sourceNode)
        /\ FsCall(moveItem(fs, settingsJson, sourceNode, targetNode, fault))
        /\ UNCHANGED <<settingsJson, recentFiles>>

RenamingNext ==
    \/ handleEditorChange
    \/ saveToFile
    \/ saveToFileResume
    \/ handleRenameSubmit
    \/ handleDragEnd

\* C38: after the active file has been renamed or moved successfully the
\* active-file reference no longer designates the old path, and no later
\* save writes to the old path or creates a file there again: the path of
\* the active file exists, and a save creates no file.
C38_ActiveFileFollowsRename ==
    /\ [](activeFile # Null => isFile(fs, activeFile))
    /\ [][(HeadIs("save") /\ serverActions' = Tail(serverActions)) =>
             DOMAIN fs' = DOMAIN fs]_vars

\* ------------------------------------------------------------------------
\* The two ways of changing the root: command palette and settings modal
\* ------------------------------------------------------------------------
SwitchRoots == {pRoot, pD, pN}

\* CommandPalette.handleConfirmSwitchRoot: a validated path becomes the root
\* and the editor is emptied; fault: updateSetting fails
handleConfirmSwitchRoot ==
    \E newRootPath \in SwitchRoots, fault \in BOOLEAN :
        /\ trim(newRootPath) # <<>>
        /\ validateDirectory(fs, newRootPath, FALSE).valid
        /\ IF fault
           THEN UNCHANGED <<settingsJson, activeFile, editorContent, pendingChange,
                            changeOutcome>>
           ELSE /\ settingsJson' = [settingsJson EXCEPT !.rootDirectory = trim(newRootPath)]
                /\ activeFile' = Null
                /\ editorContent' = ""
                /\ pendingChange' = HomeEffect(Null, pendingChange)
                /\ changeOutcome' = IF pendingChange' # pendingChange THEN "discarded"
                                    ELSE changeOutcome
        /\ UNCHANGED <<fs, recentFiles, isDirty, editorVersion, isAccepting, alerts,
                       queueVars, chatVars, gateVars, toasts, now, SessionFrame>>

RootsNext ==
    \/ handleSelectFile
    \/ handleSelectFileResume
    \/ handleConfirmSwitchRoot
    \/ OpenSettings
    \/ handleCancel
    \/ handleDirectoryChange
    \/ handleDirectoryChangeResume
    \/ SettingsModal_handleSave
    \/ SettingsModal_handleSaveResume

\* C39: whenever activeFile is non-null it lies inside the current
\* settings.rootDirectory: every action that changes the root (the switch of
\* the command palette, the save of the settings modal) also resets the
\* active file and the editor content.
C39_ActiveFileInsideRoot ==
    activeFile # Null => InsideRoot(activeFile, settingsJson.rootDirectory)

\* ------------------------------------------------------------------------
\* Specifications
\* ------------------------------------------------------------------------
SandboxInit == SbInit /\ HostInit /\ FsIdle /\ ToolIdle /\ SessionIdle /\ PostIdle /\ ModelIdle
SpecSandbox == SandboxInit /\ [][SbNext]_vars

FileStoreInit == HostInit /\ FsIdle /\ SbIdle /\ ToolIdle /\ SessionIdle /\ PostIdle /\ ModelIdle
SpecFileStore == FileStoreInit /\ [][FsNext]_vars

ToolsInit == HostInit /\ ToolInit /\ SbIdle /\ FsIdle /\ SessionIdle /\ PostIdle /\ ModelIdle
SpecTools == ToolsInit /\ [][ToolNext]_vars

PermissionInit == HostInit /\ SessionIdle /\ SbIdle /\ FsIdle /\ ToolIdle /\ PostIdle /\ ModelIdle
SpecPermission == PermissionInit /\ [][GateNext]_vars

ProposalInit == HostInit /\ SessionIdle /\ SbIdle /\ FsIdle /\ ToolIdle /\ PostIdle /\ ModelIdle
SpecProposal == ProposalInit /\ [][ProposalNext]_vars

NamingInit ==
    HostInit /\ FsIdle /\ SbIdle /\ ToolIdle /\ PostIdle /\ ModelIdle /\ SessionIdle
SpecNaming == NamingInit /\ [][NamingNext]_vars

ModelsInit == HostInit /\ ModelIdle /\ PostIdle /\ SbIdle /\ FsIdle /\ ToolIdle /\ SessionIdle
SpecModels == ModelsInit /\ [][ModelsNext]_vars

EndpointInit ==
    /\ fs = EndpointTree
    /\ settingsJson = HostSettings
    /\ recentFiles = <<>>
    /\ PostIdle /\ ModelIdle /\ SbIdle /\ FsIdle /\ ToolIdle /\ SessionIdle
SpecEndpoint == EndpointInit /\ [][EndpointNext]_vars

StagingInit == HostInit /\ SessionIdle /\ SbIdle /\ FsIdle /\ ToolIdle /\ PostIdle /\ ModelIdle
SpecStaging == StagingInit /\ [][StagingNext]_vars

ListingInit ==
    /\ fs = ListingTree
    /\ settingsJson = HostSettings
    /\ recentFiles = <<>>
    /\ FsIdle /\ SbIdle /\ ToolIdle /\ PostIdle /\ ModelIdle /\ SessionIdle
SpecListing == ListingInit /\ [][ListingNext]_vars

SettingsInit == HostInit /\ SessionIdle /\ SbIdle /\ FsIdle /\ ToolIdle /\ PostIdle /\ ModelIdle
SpecSettings == SettingsInit /\ [][SettingsNext]_vars

RecentInit ==
    RecentStart /\ SessionIdle /\ SbIdle /\ FsIdle /\ ToolIdle /\ PostIdle /\ ModelIdle
SpecRecent == RecentInit /\ [][RecentNext]_vars

QueueInit == HostInit /\ SessionIdle /\ SbIdle /\ FsIdle /\ ToolIdle /\ PostIdle /\ ModelIdle
SpecQueue == QueueInit /\ [][QueueNext]_vars

ContentInit ==
    /\ HostInit /\ ChatQuiet /\ bodyContent = NoData
    /\ ContentStore /\ ModalIdle /\ RecentIdle /\ AgentIdle
    /\ SbIdle /\ FsIdle /\ ToolIdle /\ PostIdle /\ ModelIdle
SpecContent == ContentInit /\ [][ContentNext]_vars

AgentInit ==
    /\ HostInit /\ SessionIdle
    /\ SbIdle /\ FsIdle /\ ToolIdle /\ PostIdle /\ ModelIdle
SpecAgent == AgentInit /\ [][AgentNext]_vars /\ WF_vars(AgentStep)

DeniedInit ==
    /\ HostInit /\ SessionIdle
    /\ SbIdle /\ FsIdle /\ ToolIdle /\ PostIdle /\ ModelIdle
SpecDenied == DeniedInit /\ [][DeniedNext]_vars

SpecAccept == ContentInit /\ [][AcceptNext]_vars

ResumeInit ==
    /\ HostInit /\ SessionIdle
    /\ SbIdle /\ FsIdle /\ ToolIdle /\ PostIdle /\ ModelIdle
SpecResume == ResumeInit /\ [][ResumeNext]_vars

StepsInit ==
    /\ HostInit /\ ChatIdle
    /\ ContentStore /\ ModalIdle /\ RecentIdle /\ AgentIdle
    /\ SbIdle /\ FsIdle /\ ToolIdle /\ PostIdle /\ ModelIdle
SpecSteps == StepsInit /\ [][StepsNext]_vars

RenamingInit ==
    /\ HostInit /\ ChatIdle
    /\ ContentStore /\ ModalIdle /\ RecentIdle /\ AgentIdle
    /\ SbIdle /\ FsIdle /\ ToolIdle /\ PostIdle /\ ModelIdle
SpecRenaming == RenamingInit /\ [][RenamingNext]_vars

RootsInit ==
    /\ HostInit /\ SessionIdle
    /\ SbIdle /\ FsIdle /\ ToolIdle /\ PostIdle /\ ModelIdle
SpecRoots == RootsInit /\ [][RootsNext]_vars

====
